---- MODULE Spec2Model ----
(***************************************************************************)
(* State-machine model of the wallet store of                              *)
(* wallet/src/hooks/useBitcoinWalletStore.js: the zustand store, the       *)
(* reconciliation against the mint, the deposit handlers and the           *)
(* send-with-retry protocol.  The mint, the relays and the wallet library  *)
(* are the environment: every call to them is a step whose outcome         *)
(* (a reply or a thrown error) is chosen nondeterministically.             *)
(*                                                                         *)
(* Assumptions about the environment:                                      *)
(*  - the mint's split is atomic: all inputs are consumed and the outputs  *)
(*    issued, or the call throws and nothing changes;                      *)
(*  - the mint rejects a split holding a spent input with "already spent", *)
(*    and one holding a pending input with an error of another class;      *)
(*  - the errors of the relays, the signer and the network carry none of   *)
(*    the three substrings the catch of send looks for;                    *)
(*  - the wallet library may fire "balance_updated" (with or without an    *)
(*    amount) and "ready" at any moment on a wallet that carries the       *)
(*    listeners; these events are steps of SpecDep only.  The listeners    *)
(*    write walletBalance only, which send reads at its entry guard,       *)
(*    where both outcomes are covered by the initial states.               *)
(***************************************************************************)
EXTENDS Integers, FiniteSets, Sequences, TLC

\* ------------------------------------------------------------------ bounds
MaxWallets == 2
MaxHeld == 2

\* ------------------------------------------------------- program constants
MAX_RETRIES == 2
amount == 1
unit == "sat"
DEFAULT_MINT == "https://mint.minibits.cash/Bitcoin"
DEFAULT_RECEIVER == "npub14vskcp90"

\* --------------------------------------------------------------- universes
Proofs == 1..(MaxHeld + MAX_RETRIES + 1)
Wallets == 1..MaxWallets
NoWallet == 0
SendIds == {"s1", "s2"}
Procs == SendIds \cup {"dep", "dep2", "app", "ev"}
PayProcs == SendIds \cup {"app"}
DepositAmounts == {1, 10}
\* the recipients a caller may name: the default one and a string that is
\* no bech32 key
Recipients == {DEFAULT_RECEIVER, "not-a-key"}
\* a mint other than the default one, and a key a recipient may declare
OtherMint == "https://mint.other.example"
DeclaredKey == "02c0ffee"

VARIABLES
  store,          \* the zustand store (create((set, get) => ({...})))
  mintState,      \* the mint's truth: proof -> NONE | UNSPENT | PENDING | SPENT
  amt,            \* proof -> amount
  walletProofs,   \* wallet instance -> its local proof set (wallet.state)
  relayProofs,    \* the proof set the relays hold for the identity
  relayHasWallet, \* whether the relays hold wallet events for the identity
  pc,             \* process -> position in its handler
  vb,             \* process -> frame of a running verifyAndUpdateBalance
  iw,             \* process -> frame of a running initWallet
  snd,            \* send invocation -> its locals
  obs,            \* send invocation -> what it has done (calls, attempts)
  dep,            \* the deposit operation's closure, with its caller's
                  \* isDepositing flag (handleDeposit)
  pay,            \* caller -> frame of its fetchUserPaymentInfo, with the
                  \* value returned to it
  prefs,          \* the payment-preference events (kind 10019) the relays
                  \* hold for the recipient
  localStorage,   \* the browser's localStorage: local_npub, local_nsec
  cx,             \* frame of the application's running init / connectToNostr,
                  \* with the values they returned
  hist            \* what has happened since the last logout / resetState

vars == <<store, mintState, amt, walletProofs, relayProofs, relayHasWallet, pc,
          vb, iw, snd, obs, dep, pay, prefs, localStorage, cx, hist>>

\* ---------------------------------------------------------------- helpers
RECURSIVE SumAmt(_, _)
SumAmt(a, S) == IF S = {} THEN 0
                ELSE LET p == CHOOSE x \in S : TRUE
                     IN a[p] + SumAmt(a, S \ {p})

\* set(patch): zustand merges the patch into the state
Set(patch) == store' = patch @@ store

initialState == [isConnected |-> FALSE, errorMessage |-> "null",
                 nostrPubKey |-> "", nostrPrivKey |-> "",
                 ndkInstance |-> FALSE, signer |-> FALSE,
                 cashuWallet |-> NoWallet, walletBalance |-> 0,
                 proofs |-> <<>>,
                 invoice |-> 0, isCreatingWallet |-> FALSE,
                 isWalletReady |-> FALSE]

\* the keys of the session's identity, and what localStorage holds for it
UserNpub == "npub1user"
UserNsec == "nsec1user"
NoKeys == [local_npub |-> "", local_nsec |-> ""]
UserKeys == [local_npub |-> UserNpub, local_nsec |-> UserNsec]

\* a key with the nsec prefix that is not valid bech32, and the strings a
\* caller may pass as a private key ("" for null)
BadNsec == "nsec1bad"
NsecRefs == {"", UserNsec, BadNsec, UserNpub}

\* locals and results of init / connectToNostr: the parameter, the stored
\* and the in-memory key connectToNostr saw and the key it resolved, whether
\* init called it and found both keys stored, and what each returned
\* loggedOut: handleLogout has run and no keys have been stored since;
\* resetQuiet: resetState has run and no init, connectToNostr, initWallet or
\* createNewWallet has been started since
NoHist == [loggedOut |-> FALSE, resetQuiet |-> FALSE]

\* an init, connectToNostr, initWallet or createNewWallet is started
Started == [hist EXCEPT !.resetQuiet = FALSE]

NoCx == [nsecRef |-> "", storedNsec |-> "", nostrPrivKey |-> "", nsec |-> "",
         viaInit |-> FALSE, connection |-> "none", initResult |-> "none"]

\* extractBalance: null/undefined -> 0, number -> itself, {amount} -> amount,
\* anything else -> Number(bal), 0 when that is NaN
extractBalance(bal) ==
  IF bal.type = "null" THEN 0
  ELSE IF bal.type = "number" THEN bal.v
  ELSE IF bal.type = "object" /\ bal.amountIsNumber THEN bal.v
  ELSE IF bal.type = "string" /\ bal.numeric THEN bal.v
  ELSE 0

\* wallet.balance of the wallet library: an object {amount} over the local proofs
walletBalanceOf(w) ==
  [type |-> "object", amountIsNumber |-> TRUE, numeric |-> FALSE,
   v |-> SumAmt(amt, walletProofs[w])]

\* the array getProofs returns for a proof set: the proofs in ascending order
RECURSIVE proofList(_)
proofList(ps) ==
  IF ps = {} THEN <<>>
  ELSE LET p == CHOOSE x \in ps : \A y \in ps : x <= y
       IN <<p>> \o proofList(ps \ {p})

\* the reply of checkProofsStates: one entry per proof, in the order of the
\* request, each with the state the mint holds for it
checkProofsStates(proofs) ==
  [i \in 1..Len(proofs) |-> [state |-> mintState[proofs[i]]]]

\* the replies of a mint that may not keep to that: any list of entries, up
\* to the length of the request, with any state
ProofStateNames == {"UNSPENT", "PENDING", "SPENT", "UNKNOWN"}
AnyProofStates(n) ==
  UNION {[1..k -> [state : ProofStateNames]] : k \in 0..n}

\* proofStates[i]?.state
stateAt(proofStates, i) ==
  IF i \in DOMAIN proofStates THEN proofStates[i].state ELSE "undefined"

\* proofs.filter((proof, i) => proofStates[i]?.state === "UNSPENT")
\* (a filter that only drops the spent ones, and one that takes a missing
\* entry for an unspent proof)
notSpentProofs(proofs, proofStates) ==
  {proofs[i] : i \in {j \in 1..Len(proofs) : stateAt(proofStates, j) # "SPENT"}}
unspentOrMissing(proofs, proofStates) ==
  {proofs[i] : i \in {j \in 1..Len(proofs) :
                        stateAt(proofStates, j) \in {"UNSPENT", "undefined"}}}
unspentProofs(proofs, proofStates) ==
  {proofs[i] : i \in {j \in 1..Len(proofs) :
                        stateAt(proofStates, j) = "UNSPENT"}}

\* wallet.state.update({store, destroy, mint}) on instance w, synced to relays
stateUpdate(w, storeProofs, destroy) ==
  /\ walletProofs' = [walletProofs EXCEPT ![w] = (@ \ destroy) \cup storeProofs]
  /\ relayProofs' = (relayProofs \ destroy) \cup storeProofs
  /\ relayHasWallet' = TRUE

NoFrame == [ret |-> "none", wallet |-> NoWallet, proofs |-> {}, queries |-> 0,
            asked |-> <<>>, proofStates |-> <<>>, bal |-> 0, failed |-> FALSE,
            newer |-> FALSE]
NoIw == [ret |-> "none", wallet |-> NoWallet, publishFailed |-> FALSE,
         result |-> "none"]
\* initWallet / createNewWallet has returned null
NullIw == [NoIw EXCEPT !.result = "null"]
NoEvent == [signed |-> FALSE, proofTags |-> <<>>, tags |-> <<>>]
NoSend == [recipientNpub |-> "unset", retryCount |-> 0,
           freshWallet |-> NoWallet, p2pkPubkey |-> "unset", mint |-> "unset",
           proofs |-> {}, queries |-> 0, asked |-> <<>>,
           proofStates |-> <<>>,
           validProofs |-> {},
           keep |-> {}, send |-> <<>>, nutzapEvent |-> NoEvent,
           steps |-> <<>>,
           e |-> "none", result |-> "none", logged |-> "none"]
NoObs == [attempts |-> 0, checks |-> 0, splits |-> 0, publishes |-> 0,
          mintCalls |-> FALSE, relayCalls |-> FALSE, stale |-> 0, fatal |-> 0,
          stepFailed |-> FALSE]
NoInfo == [mints |-> <<>>, p2pkPubkey |-> "unset", relays |-> <<>>]
NoReply == [ok |-> TRUE, events |-> <<>>]
NoPay == [ret |-> "none", recipientNpub |-> "unset", hexNpub |-> "null",
          reply |-> NoReply, info |-> NoInfo]
NoDep == [wallet |-> NoWallet, amount |-> 0, token |-> {}, cb |-> "none",
          cbValue |-> 0, isDepositing |-> FALSE]

\* the errors the retry policy is about: the mint reporting proofs already
\* spent, no valid proofs, or an insufficient valid balance after filtering
StaleProofError(e) == e \in {"spent", "novalid", "insufficient"}

\* what a send invocation is seen to do: the number of its attempts, state
\* checks, successful splits, publications and caught errors, and whether it
\* has issued any call to the mint or to the relays
Count(self, field) ==
  IF self \in SendIds THEN [obs EXCEPT ![self][field] = @ + 1] ELSE obs
Called(self, field) ==
  IF self \in SendIds THEN [obs EXCEPT ![self][field] = TRUE] ELSE obs

\* Continuations that run in the same task as the step before them (the
\* resumption of an await on an already settled internal promise): no other
\* handler runs while one of them is pending.
Micro == {"send_fresh", "send_info", "send_true", "send_false", "d_finish",
          "d_done", "app_ret", "app_info", "ev_ret", "cn_ret"}
MicroPending == \E p \in Procs : pc[p] \in Micro

\* wallet instances still referenced by the store or by a running handler
LiveWallets ==
  {store.cashuWallet} \cup {snd[s].freshWallet : s \in SendIds}
  \cup {vb[p].wallet : p \in Procs} \cup {iw[p].wallet : p \in Procs}
  \cup {dep.wallet}
FreeWallets == Wallets \ LiveWallets
NewWallet == CHOOSE w \in FreeWallets : \A v \in FreeWallets : w <= v

\* an instance nothing references any more is reclaimed by the runtime
Garbage == {w \in FreeWallets : walletProofs[w] # {}}
Quiet == ~MicroPending /\ Garbage = {}

Init ==
  /\ store = initialState
  /\ mintState = [p \in Proofs |-> "NONE"]
  /\ amt = [p \in Proofs |-> 0]
  /\ walletProofs = [w \in Wallets |-> {}]
  /\ relayProofs = {}
  /\ relayHasWallet = FALSE
  /\ pc = [p \in Procs |-> "idle"]
  /\ vb = [p \in Procs |-> NoFrame]
  /\ iw = [p \in Procs |-> NoIw]
  /\ snd = [s \in SendIds |-> NoSend]
  /\ obs = [s \in SendIds |-> NoObs]
  /\ dep = NoDep
  /\ pay = [p \in PayProcs |-> NoPay]
  /\ prefs = <<>>
  /\ localStorage = NoKeys
  /\ cx = NoCx
  /\ hist = NoHist

Collect ==
  /\ Garbage # {}
  /\ walletProofs' = [w \in Wallets |->
                        IF w \in Garbage THEN {} ELSE walletProofs[w]]
  /\ UNCHANGED <<store, mintState, amt, relayProofs, relayHasWallet, pc, vb,
                 iw, snd, obs, dep, pay, prefs, localStorage, cx, hist>>

\* ------------------------------------------------ verifyAndUpdateBalance
\* const { cashuWallet } = get(); if (!cashuWallet) return 0;
\* balance = await verifyBalanceWithMint(cashuWallet, DEFAULT_MINT), which
\* reads the wallet's proofs at once: proofs = wallet.state.getProofs(...)
\* (held: the proofs of each wallet at the call)
vbFrameAt(ret, cw, held) ==
  IF cw = NoWallet THEN NoFrame
  ELSE [NoFrame EXCEPT !.ret = ret, !.wallet = cw, !.proofs = held[cw]]
vbPcAt(ret, cw) == IF cw = NoWallet THEN ret ELSE "vb_query"

\* the reconciliations under way
Reconciling == {p \in Procs : pc[p] \in {"vb_query", "vb_set"}}

\* process self calls verifyAndUpdateBalance (frame.newer of a
\* reconciliation under way: another one has been started after it)
vbStart(self, ret, cw, held) ==
  [p \in Procs |->
     IF p = self THEN vbFrameAt(ret, cw, held)
     ELSE IF cw # NoWallet /\ p \in Reconciling
     THEN [vb[p] EXCEPT !.newer = TRUE]
     ELSE vb[p]]

\* verifyBalanceWithMint up to the mint's reply: no proofs -> 0 without a
\* query; otherwise one checkProofsStates(proofs), and the sum of the proofs
\* reported UNSPENT, or a failure
verifiedBalance(proofs, proofStates) ==
  SumAmt(amt, unspentProofs(proofs, proofStates))

\* the reply has arrived (frame.queries counts the state queries issued,
\* frame.asked is the list the last one was about)
VbReply(self, proofStates) ==
  vb' = [vb EXCEPT ![self].queries = @ + 1,
                   ![self].asked = proofList(vb[self].proofs),
                   ![self].proofStates = proofStates,
                   ![self].bal = verifiedBalance(proofList(vb[self].proofs),
                                                 proofStates)]

\* (a reconciliation that asks the mint about each proof by itself)
VbQueryPerProof(self) ==
  /\ Quiet /\ pc[self] = "vb_query" /\ vb[self].proofs # {}
  /\ LET proofs == proofList(vb[self].proofs)
     IN vb' = [vb EXCEPT ![self].queries = Len(proofs),
                         ![self].asked = <<proofs[Len(proofs)]>>,
                         ![self].bal = verifiedBalance(proofs,
                                         checkProofsStates(proofs))]
  /\ pc' = [pc EXCEPT ![self] = "vb_set"]
  /\ UNCHANGED <<store, mintState, amt, walletProofs, relayProofs,
                 relayHasWallet, iw, snd, obs, dep, pay, prefs, localStorage,
                 cx, hist>>

VbQuery(self) ==
  /\ Quiet /\ pc[self] = "vb_query"
  /\ LET proofs == proofList(vb[self].proofs)
     IN IF Len(proofs) = 0
        THEN /\ vb' = [vb EXCEPT ![self].bal = 0]
             /\ obs' = obs
        ELSE /\ \/ VbReply(self, checkProofsStates(proofs))
                \/ vb' = [vb EXCEPT ![self].queries = @ + 1,
                                    ![self].asked = proofs,
                                    ![self].failed = TRUE]
             /\ obs' = Called(self, "mintCalls")
  /\ pc' = [pc EXCEPT ![self] = "vb_set"]
  /\ UNCHANGED <<store, mintState, amt, walletProofs, relayProofs,
                 relayHasWallet, iw, snd, dep, pay, prefs, localStorage, cx,
                 hist>>

\* the same with a mint whose reply may be any list of states
VbQueryAny(self) ==
  /\ Quiet /\ pc[self] = "vb_query"
  /\ LET proofs == proofList(vb[self].proofs)
     IN /\ Len(proofs) > 0
        /\ \E proofStates \in AnyProofStates(Len(proofs)) :
             VbReply(self, proofStates)
  /\ obs' = Called(self, "mintCalls")
  /\ pc' = [pc EXCEPT ![self] = "vb_set"]
  /\ UNCHANGED <<store, mintState, amt, walletProofs, relayProofs,
                 relayHasWallet, iw, snd, dep, pay, prefs, localStorage, cx,
                 hist>>

\* the catch of verifyBalanceWithMint and set({ walletBalance: balance })
\* (fallbacks to the displayed balance, and to 0)
reconciledStored(f) == IF f.failed THEN store.walletBalance ELSE f.bal
reconciledZero(f) == IF f.failed THEN 0 ELSE f.bal
reconciled(f) ==
  IF f.failed THEN extractBalance(walletBalanceOf(f.wallet)) ELSE f.bal

\* (a reconciliation that reports a failed query in errorMessage)
VbSetReporting(self) ==
  /\ Quiet /\ pc[self] = "vb_set"
  /\ Set([walletBalance |-> reconciled(vb[self]),
          errorMessage |-> IF vb[self].failed THEN "network"
                           ELSE store.errorMessage])
  /\ vb' = [vb EXCEPT ![self] = [NoFrame EXCEPT !.bal = reconciled(vb[self])]]
  /\ pc' = [pc EXCEPT ![self] = vb[self].ret]
  /\ UNCHANGED <<mintState, amt, walletProofs, relayProofs, relayHasWallet, iw,
                 snd, obs, dep, pay, prefs, localStorage, cx, hist>>

VbSet(self) ==
  /\ Quiet /\ pc[self] = "vb_set"
  /\ Set([walletBalance |-> reconciled(vb[self])])
  /\ vb' = [vb EXCEPT ![self] = [NoFrame EXCEPT !.bal = reconciled(vb[self])]]
  /\ pc' = [pc EXCEPT ![self] = vb[self].ret]
  /\ UNCHANGED <<mintState, amt, walletProofs, relayProofs, relayHasWallet, iw,
                 snd, obs, dep, pay, prefs, localStorage, cx, hist>>

\* ------------------------------------------------------------ initWallet
\* entry: if (!ndkInstance || !signer) return null; else fetchEvents
iwPcAt(ret, st) == IF st.ndkInstance /\ st.signer THEN "iw_fetch" ELSE ret
iwFrameAt(ret, st) ==
  IF st.ndkInstance /\ st.signer THEN [NoIw EXCEPT !.ret = ret] ELSE NullIw

\* (an initWallet that drops the loaded wallet when it finds no events)
IwFetchClearing(self) ==
  /\ Quiet /\ pc[self] = "iw_fetch"
  /\ \/ /\ Set([errorMessage |-> "relay"])
        /\ pc' = [pc EXCEPT ![self] = iw[self].ret]
        /\ iw' = [iw EXCEPT ![self] = NullIw]
        /\ obs' = obs
     \/ /\ Set([cashuWallet |-> NoWallet, isWalletReady |-> FALSE,
                walletBalance |-> 0])
        /\ pc' = [pc EXCEPT ![self] = iw[self].ret]
        /\ iw' = [iw EXCEPT ![self] = NullIw]
        /\ obs' = obs
     \/ /\ relayHasWallet
        /\ pc' = [pc EXCEPT ![self] = "iw_start"]
        /\ obs' = Called(self, "relayCalls")
        /\ UNCHANGED <<store, iw>>
  /\ UNCHANGED <<mintState, amt, walletProofs, relayProofs, relayHasWallet, vb,
                 snd, dep, pay, prefs, localStorage, cx, hist>>

\* fetchEvents resolves: error -> setError, null; none found -> null;
\* found -> new NDKCashuWallet, wallet.start
IwFetch(self) ==
  /\ Quiet /\ pc[self] = "iw_fetch"
  /\ \/ /\ Set([errorMessage |-> "relay"])
        /\ pc' = [pc EXCEPT ![self] = iw[self].ret]
        /\ iw' = [iw EXCEPT ![self] = NullIw]
        /\ obs' = obs
     \/ /\ pc' = [pc EXCEPT ![self] = iw[self].ret]
        /\ iw' = [iw EXCEPT ![self] = NullIw]
        /\ UNCHANGED <<store, obs>>
     \/ /\ relayHasWallet
        /\ pc' = [pc EXCEPT ![self] = "iw_start"]
        /\ obs' = Called(self, "relayCalls")
        /\ UNCHANGED <<store, iw>>
  /\ UNCHANGED <<mintState, amt, walletProofs, relayProofs, relayHasWallet, vb,
                 snd, dep, pay, prefs, localStorage, cx, hist>>

\* wallet.start resolves: throws -> setError, null; else the proofs are
\* loaded from the relays, set({cashuWallet, isWalletReady}), reconcile
IwStart(self) ==
  /\ Quiet /\ pc[self] = "iw_start"
  /\ \/ /\ Set([errorMessage |-> "relay"])
        /\ pc' = [pc EXCEPT ![self] = iw[self].ret]
        /\ iw' = [iw EXCEPT ![self] = NullIw]
        /\ UNCHANGED <<walletProofs, vb>>
     \/ /\ FreeWallets # {}
        /\ LET w == NewWallet IN
           /\ walletProofs' = [walletProofs EXCEPT ![w] = relayProofs]
           /\ Set([cashuWallet |-> w, isWalletReady |-> TRUE])
           /\ vb' = vbStart(self, iw[self].ret, w, walletProofs')
           /\ pc' = [pc EXCEPT ![self] = vbPcAt(iw[self].ret, w)]
        /\ iw' = [iw EXCEPT ![self] = [NoIw EXCEPT !.result = "wallet"]]
  /\ UNCHANGED <<mintState, amt, relayProofs, relayHasWallet, snd, obs, dep,
                 pay, prefs, localStorage, cx, hist>>

\* ------------------------------------------------- fetchUserPaymentInfo
\* decodeKey: the hex form of a bech32 key, null when it does not decode
decodeKey(key) ==
  IF key = DEFAULT_RECEIVER THEN "ab216c04af"
  ELSE IF key = UserNpub THEN "75e2a1"
  ELSE IF key = UserNsec THEN "5ec2e7"
  ELSE "null"

\* the tags a kind 10019 event may carry, the events (tag lists) a recipient
\* may have published (none, each tag alone, and pairs of them), and the
\* replies of fetchEvents: an error, or at most one event (limit: 1)
PrefTags == {<<"mint", DEFAULT_MINT>>, <<"mint", OtherMint>>, <<"mint", "">>,
             <<"pubkey", DeclaredKey>>, <<"pubkey", "">>, <<"relay", "wss://r">>}
PrefEvents ==
  {<<>>} \cup {<<t>> : t \in PrefTags}
  \cup {<< <<"mint", DEFAULT_MINT>>, <<"mint", OtherMint>> >>,
        << <<"mint", OtherMint>>, <<"pubkey", DeclaredKey>> >>,
        << <<"pubkey", DeclaredKey>>, <<"relay", "wss://r">> >>,
        << <<"pubkey", DeclaredKey>>, <<"pubkey", "">> >>}
\* what the recipient may have published: nothing, or one event
PublishedPrefs == {<<>>} \cup {<<ev>> : ev \in PrefEvents}

\* ndkInstance.fetchEvents({kinds: [10019], authors: [hexNpub]}): it throws,
\* or returns the events the relays hold, or none of them
FetchReplies ==
  {[ok |-> FALSE, events |-> <<>>], [ok |-> TRUE, events |-> <<>>],
   [ok |-> TRUE, events |-> prefs]}

\* for (const tag of userEvent.tags): mint and relay values are collected,
\* the last pubkey value wins; empty values are skipped
RECURSIVE parseTags(_, _)
parseTags(tags, acc) ==
  IF tags = <<>> THEN acc
  ELSE LET t == Head(tags)[1]
           v1 == Head(tags)[2]
           next == IF t = "mint" /\ v1 # ""
                     THEN [acc EXCEPT !.mints = Append(@, v1)]
                   ELSE IF t = "relay" /\ v1 # ""
                     THEN [acc EXCEPT !.relays = Append(@, v1)]
                   ELSE IF t = "pubkey" /\ v1 # ""
                     THEN [acc EXCEPT !.p2pkPubkey = v1]
                   ELSE acc
       IN parseTags(Tail(tags), next)

\* the three returns that do not look at an event
defaultInfo(key) ==
  [mints |-> <<DEFAULT_MINT>>, p2pkPubkey |-> key, relays |-> <<>>]

\* what fetchUserPaymentInfo returns once fetchEvents has settled
paymentInfo(hexNpub, reply) ==
  IF ~reply.ok THEN defaultInfo(hexNpub)
  ELSE IF Len(reply.events) = 0 THEN defaultInfo(hexNpub)
  ELSE LET parsed == parseTags(reply.events[1],
                               [mints |-> <<>>, p2pkPubkey |-> "null",
                                relays |-> <<>>])
       IN [mints |-> IF Len(parsed.mints) = 0 THEN <<DEFAULT_MINT>>
                     ELSE parsed.mints,
           p2pkPubkey |-> IF parsed.p2pkPubkey = "null" THEN hexNpub
                          ELSE parsed.p2pkPubkey,
           relays |-> parsed.relays]

\* entry of fetchUserPaymentInfo(recipientNpub): without a relay connection
\* or with a key that does not decode it returns at once, else fetchEvents
payReturnsAtOnce(st, npub) == ~st.ndkInstance \/ decodeKey(npub) = "null"
payFrameAt(ret, st, npub) ==
  IF payReturnsAtOnce(st, npub)
  THEN [NoPay EXCEPT !.recipientNpub = npub, !.info = defaultInfo("null")]
  ELSE [NoPay EXCEPT !.recipientNpub = npub, !.hexNpub = decodeKey(npub),
                     !.ret = ret]
payPcAt(ret, st, npub) == IF payReturnsAtOnce(st, npub) THEN ret ELSE "lookup"

\* fetchEvents of the recipient's kind 10019 settles; the info is returned
Lookup(self) ==
  /\ Quiet /\ pc[self] = "lookup"
  /\ \E reply \in FetchReplies :
       pay' = [pay EXCEPT ![self] =
                 [@ EXCEPT !.ret = "none", !.reply = reply,
                           !.info = paymentInfo(pay[self].hexNpub, reply)]]
  /\ pc' = [pc EXCEPT ![self] = pay[self].ret]
  /\ UNCHANGED <<store, mintState, amt, walletProofs, relayProofs,
                 relayHasWallet, vb, iw, snd, obs, dep, prefs, localStorage,
                 cx, hist>>

\* fetchUserPaymentInfo called directly on the store, for any recipient
AppFetchInfo ==
  /\ Quiet /\ pc["app"] = "idle"
  /\ \E r \in Recipients :
       /\ pay' = [pay EXCEPT !["app"] = payFrameAt("app_info", store, r)]
       /\ pc' = [pc EXCEPT !["app"] = payPcAt("app_info", store, r)]
  /\ UNCHANGED <<store, mintState, amt, walletProofs, relayProofs,
                 relayHasWallet, vb, iw, snd, obs, dep, prefs, localStorage,
                 cx, hist>>

\* the caller has the info
AppInfo ==
  /\ pc["app"] = "app_info"
  /\ pc' = [pc EXCEPT !["app"] = "idle"]
  /\ UNCHANGED <<store, mintState, amt, walletProofs, relayProofs,
                 relayHasWallet, vb, iw, snd, obs, dep, pay, prefs,
                 localStorage, cx, hist>>

\* ------------------------------------------------------------------ send
\* e.message includes "already spent" | "no valid proofs" | "insufficient valid"
\*   "spent"        the mint's "Token already spent"
\*   "novalid"      "No valid proofs available"
\*   "insufficient" "Insufficient valid balance: n"
\*   "noproofs"     "No proofs available"; "pending", "network", "relay",
\*   "sign",        errors of the mint, the relays (state update), the signer
\*   "publish"      and the relays (publication of the nutzap)
\* (two wider tests: every error, and the network errors too)
isSpentErrorAny(e) == e # "none"
isSpentErrorNetwork(e) == e \in {"spent", "novalid", "insufficient", "network"}
isSpentErrorPublish(e) == e \in {"spent", "novalid", "insufficient", "publish"}
isSpentError(e) == e \in {"spent", "novalid", "insufficient"}

\* if (walletBalance < 1)
\* (a guard that lets a balance of 0 through)
insufficientBalanceNegative(st) == st.walletBalance < 0
insufficientBalance(st) == st.walletBalance < 1

\* return of send before the try block: only the result and the log remain
sendReturns(s, res, msg, rc) ==
  [NoSend EXCEPT !.retryCount = rc, !.result = res, !.logged = msg]

\* entry of send(recipientNpub, retryCount): the two guards, then initWallet()
SendEntry(s, r, rc) ==
  /\ obs' = [obs EXCEPT ![s] =
               [@ EXCEPT
                  !.attempts = @ + 1,
                  !.relayCalls = @ \/ (/\ store.cashuWallet # NoWallet
                                       /\ ~insufficientBalance(store)
                                       /\ store.ndkInstance /\ store.signer)]]
  /\ IF store.cashuWallet = NoWallet
     THEN /\ snd' = [snd EXCEPT ![s] =
                       sendReturns(s, "false", "Wallet not initialized", rc)]
          /\ pc' = [pc EXCEPT ![s] = "done"]
          /\ UNCHANGED <<iw, hist>>
     ELSE IF insufficientBalance(store)
     THEN /\ snd' = [snd EXCEPT ![s] =
                       sendReturns(s, "false", "Insufficient balance", rc)]
          /\ pc' = [pc EXCEPT ![s] = "done"]
          /\ UNCHANGED <<iw, hist>>
     ELSE /\ snd' = [snd EXCEPT ![s] = [NoSend EXCEPT !.recipientNpub = r,
                                                     !.retryCount = rc]]
          /\ pc' = [pc EXCEPT ![s] = iwPcAt("send_fresh", store)]
          /\ iw' = [iw EXCEPT ![s] = iwFrameAt("send_fresh", store)]
          /\ hist' = Started

SendCallTo(s, r) ==
  /\ Quiet /\ pc[s] = "idle"
  /\ SendEntry(s, r, 0)
  /\ UNCHANGED <<store, mintState, amt, walletProofs, relayProofs,
                 relayHasWallet, vb, dep, pay, prefs, localStorage, cx>>

\* handleSend: send(), the recipient defaulting to DEFAULT_RECEIVER
SendCall(s) == SendCallTo(s, DEFAULT_RECEIVER)

\* if (isSpentError && retryCount < MAX_RETRIES)
\* (a cap one too high, and no retry at all)
canRetryInclusive(e, rc) == isSpentError(e) /\ rc <= MAX_RETRIES
canRetryNever(e, rc) == FALSE
canRetry(e, rc) == isSpentError(e) /\ rc < MAX_RETRIES

\* the catch block: retry on a stale-proof error while retryCount < MAX_RETRIES,
\* else setError(e.message), reconcile, return false
\* (a catch that returns false without the closing reconciliation)
ThrowUnreconciled(s, e, o) ==
  /\ snd' = [snd EXCEPT ![s].e = e, ![s].logged = "Error sending nutzap"]
  /\ obs' = [obs EXCEPT ![s] = IF StaleProofError(e)
                                THEN [o EXCEPT !.stale = @ + 1]
                                ELSE [o EXCEPT !.fatal = @ + 1]]
  /\ IF canRetry(e, snd[s].retryCount)
     THEN /\ pc' = [pc EXCEPT ![s] = "backoff"]
          /\ store' = store
     ELSE /\ Set([errorMessage |-> e])
          /\ pc' = [pc EXCEPT ![s] = "send_false"]
  /\ vb' = vb

\* (a catch that hands the other errors on to the caller)
ThrowRethrowing(s, e, o) ==
  /\ obs' = [obs EXCEPT ![s] = IF StaleProofError(e)
                                THEN [o EXCEPT !.stale = @ + 1]
                                ELSE [o EXCEPT !.fatal = @ + 1]]
  /\ IF canRetry(e, snd[s].retryCount)
     THEN /\ snd' = [snd EXCEPT ![s].e = e]
          /\ pc' = [pc EXCEPT ![s] = "backoff"]
     ELSE /\ snd' = [snd EXCEPT ![s].e = e, ![s].result = "thrown"]
          /\ pc' = [pc EXCEPT ![s] = "done"]
  /\ UNCHANGED <<store, vb>>

Throw(s, e, o) ==
  /\ snd' = [snd EXCEPT ![s].e = e, ![s].logged = "Error sending nutzap"]
  /\ obs' = [obs EXCEPT ![s] = IF StaleProofError(e)
                                THEN [o EXCEPT !.stale = @ + 1]
                                ELSE [o EXCEPT !.fatal = @ + 1]]
  /\ IF canRetry(e, snd[s].retryCount)
     THEN /\ pc' = [pc EXCEPT ![s] = "backoff"]
          /\ UNCHANGED <<store, vb>>
     ELSE /\ Set([errorMessage |-> e])
          /\ vb' = vbStart(s, "send_false", store.cashuWallet, walletProofs)
          /\ pc' = [pc EXCEPT ![s] = vbPcAt("send_false", store.cashuWallet)]

\* get().send(recipientNpub, retryCount + 1)
\* (a retry that does not count)
sameRetryCount(rc) == rc
nextRetryCount(rc) == rc + 1

\* setTimeout(500) fires: the send is entered again
Backoff(s) ==
  /\ Quiet /\ pc[s] = "backoff"
  /\ SendEntry(s, snd[s].recipientNpub, nextRetryCount(snd[s].retryCount))
  /\ UNCHANGED <<store, mintState, amt, walletProofs, relayProofs,
                 relayHasWallet, vb, dep, pay, prefs, localStorage, cx>>

\* after await initWallet(): freshWallet = get().cashuWallet, then
\* fetchUserPaymentInfo(recipientNpub)
SendFresh(s) ==
  /\ pc[s] = "send_fresh"
  /\ IF store.cashuWallet = NoWallet
     THEN /\ snd' = [snd EXCEPT ![s] =
               sendReturns(s, "false", "Wallet not available after refresh",
                           snd[s].retryCount)]
          /\ pc' = [pc EXCEPT ![s] = "done"]
          /\ UNCHANGED <<obs, pay, prefs, localStorage, cx, hist>>
     ELSE /\ snd' = [snd EXCEPT ![s].freshWallet = store.cashuWallet]
          /\ pay' = [pay EXCEPT ![s] =
                       payFrameAt("send_info", store, snd[s].recipientNpub)]
          /\ pc' = [pc EXCEPT ![s] =
                      payPcAt("send_info", store, snd[s].recipientNpub)]
          /\ obs' = IF payReturnsAtOnce(store, snd[s].recipientNpub)
                    THEN obs ELSE Called(s, "relayCalls")
  /\ vb' = [vb EXCEPT ![s] = NoFrame]
  /\ iw' = [iw EXCEPT ![s] = NoIw]
  /\ UNCHANGED <<store, mintState, amt, walletProofs, relayProofs,
                 relayHasWallet, dep, prefs, localStorage, cx, hist>>

\* const { p2pkPubkey } = (the info returned);
\* freshWallet.getCashuWallet(DEFAULT_MINT) is called
SendInfo(s) ==
  /\ pc[s] = "send_info"
  /\ snd' = [snd EXCEPT ![s].p2pkPubkey = pay[s].info.p2pkPubkey,
                        ![s].mint = DEFAULT_MINT]
  /\ pay' = [pay EXCEPT ![s] = NoPay]
  /\ pc' = [pc EXCEPT ![s] = "getmint"]
  /\ obs' = Called(s, "mintCalls")
  /\ UNCHANGED <<store, mintState, amt, walletProofs, relayProofs,
                 relayHasWallet, vb, iw, dep, prefs, localStorage, cx, hist>>

\* getCashuWallet resolves; proofs = freshWallet.state.getProofs(...);
\* checkProofsStates(proofs) is called (snd.queries counts the state queries
\* of the attempt, snd.asked is the list the last one was about)
GetMint(s) ==
  /\ Quiet /\ pc[s] = "getmint"
  /\ \/ Throw(s, "network", obs[s])
     \/ LET ps == walletProofs[snd[s].freshWallet] IN
        IF ps = {}
        THEN Throw(s, "noproofs", obs[s])
        ELSE /\ snd' = [snd EXCEPT ![s].proofs = ps, ![s].queries = @ + 1,
                                   ![s].asked = proofList(ps)]
             /\ pc' = [pc EXCEPT ![s] = "check"]
             /\ obs' = [obs EXCEPT ![s].mintCalls = TRUE, ![s].checks = @ + 1]
             /\ UNCHANGED <<store, vb>>
  /\ UNCHANGED <<mintState, amt, walletProofs, relayProofs, relayHasWallet, iw,
                 dep, pay, prefs, localStorage, cx, hist>>

\* proofs.filter(state === "UNSPENT")
validProofsOf(proofs, proofStates) == unspentProofs(proofs, proofStates)

\* (a check that drops the proofs it finds invalid from the local set)
CheckPruning(s) ==
  /\ Quiet /\ pc[s] = "check"
  /\ LET proofs == proofList(snd[s].proofs) IN
     /\ walletProofs' = [walletProofs EXCEPT ![snd[s].freshWallet] =
                            validProofsOf(proofs, checkProofsStates(proofs))]
     /\ Throw(s, "novalid", obs[s])
  /\ UNCHANGED <<mintState, amt, relayProofs, relayHasWallet, iw, dep, pay,
                 prefs, localStorage, cx, hist>>

\* the reply has arrived: filter; the two balance guards; issue the split
CheckReply(s, proofStates) ==
  LET valid == validProofsOf(proofList(snd[s].proofs), proofStates)
  IN IF valid = {}
     THEN Throw(s, "novalid", obs[s])
     ELSE IF SumAmt(amt, valid) < amount
     THEN Throw(s, "insufficient", obs[s])
     ELSE /\ snd' = [snd EXCEPT ![s].proofStates = proofStates,
                                ![s].validProofs = valid]
          /\ pc' = [pc EXCEPT ![s] = "split"]
          /\ obs' = Called(s, "mintCalls")
          /\ UNCHANGED <<store, vb>>

\* checkProofsStates resolves, or throws
Check(s) ==
  /\ Quiet /\ pc[s] = "check"
  /\ \/ Throw(s, "network", obs[s])
     \/ CheckReply(s, checkProofsStates(proofList(snd[s].proofs)))
  /\ UNCHANGED <<mintState, amt, walletProofs, relayProofs, relayHasWallet, iw,
                 dep, pay, prefs, localStorage, cx, hist>>

\* the same with a mint whose reply may be any list of states
CheckAny(s) ==
  /\ Quiet /\ pc[s] = "check"
  /\ \E proofStates \in AnyProofStates(Cardinality(snd[s].proofs)) :
       CheckReply(s, proofStates)
  /\ UNCHANGED <<mintState, amt, walletProofs, relayProofs, relayHasWallet, iw,
                 dep, pay, prefs, localStorage, cx, hist>>

\* proof ids the mint has not issued yet
FreeProofs == {p \in Proofs : mintState[p] = "NONE"}
NewProof == CHOOSE p \in FreeProofs : \A q \in FreeProofs : p <= q

\* the proofs the mint issues for the amount sent: one proof of 1 sat, locked
\* to the key given in the pubkey option, a bearer proof when that is null
sendProofs(a, pubkey) == [i \in 1..a |-> [amount |-> 1, lock |-> pubkey]]
RECURSIVE SumProofs(_)
SumProofs(ps) == IF ps = <<>> THEN 0 ELSE Head(ps).amount + SumProofs(Tail(ps))

\* what the mint may return as change for inputs worth sum: the conserving
\* amount, or (a faulty mint) one unit less
SplitKeepAmounts(sum) ==
  {sum - amount} \cup (IF sum - amount >= 1 THEN {sum - amount - 1} ELSE {})

\* cashuWalletInstance.send(amount, validProofs, { pubkey: p2pkPubkey })
\* (the unfiltered set)
splitInputAll(s) == snd[s].proofs
splitInput(s) == snd[s].validProofs

\* the mint evaluates the split: atomic, all inputs consumed or none
\* the observation that one of the steps after the check has failed
FailedStep(s) == [obs[s] EXCEPT !.stepFailed = TRUE]

Split(s) ==
  /\ Quiet /\ pc[s] = "split"
  /\ LET ins == splitInput(s) IN
     \/ /\ Throw(s, "network", FailedStep(s))
        /\ UNCHANGED <<mintState, amt>>
     \/ /\ \E p \in ins : mintState[p] = "SPENT"
        /\ Throw(s, "spent", FailedStep(s))
        /\ UNCHANGED <<mintState, amt>>
     \/ /\ \A p \in ins : mintState[p] # "SPENT"
        /\ \E p \in ins : mintState[p] = "PENDING"
        /\ Throw(s, "pending", FailedStep(s))
        /\ UNCHANGED <<mintState, amt>>
     \/ /\ \A p \in ins : mintState[p] = "UNSPENT"
        /\ \E k \in SplitKeepAmounts(SumAmt(amt, ins)) :
             /\ k > 0 => FreeProofs # {}
             /\ LET kp == IF k > 0 THEN {NewProof} ELSE {} IN
                /\ mintState' = [p \in Proofs |->
                                   IF p \in ins THEN "SPENT"
                                   ELSE IF p \in kp THEN "UNSPENT"
                                   ELSE mintState[p]]
                /\ amt' = [p \in Proofs |-> IF p \in kp THEN k ELSE amt[p]]
                /\ snd' = [snd EXCEPT
                             ![s].keep = kp,
                             ![s].send = sendProofs(amount, snd[s].p2pkPubkey),
                             ![s].steps = Append(@, "split")]
        /\ pc' = [pc EXCEPT ![s] = "update"]
        /\ obs' = [obs EXCEPT ![s].splits = @ + 1, ![s].relayCalls = TRUE]
        /\ UNCHANGED <<store, vb>>
  /\ UNCHANGED <<walletProofs, relayProofs, relayHasWallet, iw, dep, pay,
                 prefs, localStorage, cx, hist>>

\* freshWallet.state.update({ store: keep, destroy: proofs, mint })
\* (only the proofs put into the split)
destroyedValid(s) == snd[s].validProofs
destroyed(s) == snd[s].proofs

\* amount.toString(), JSON.stringify(proof)
toString(n) == <<"0", "1", "2", "3", "4", "5", "6", "7", "8", "9", "10">>[n + 1]
stringify(proof) == [json |-> proof]

\* new NDKEvent(ndkInstance, { kind: 9321, tags: [...proofTags, ["amount"],
\* ["unit"], ["u"], ["p"]] }); recipientHex = decodeKey(recipientNpub)
nutzap(send, recipientNpub) ==
  [signed |-> FALSE,
   proofTags |-> [i \in 1..Len(send) |-> <<"proof", stringify(send[i])>>],
   tags |-> << <<"amount", toString(amount)>>, <<"unit", unit>>,
               <<"u", DEFAULT_MINT>>, <<"p", decodeKey(recipientNpub)>> >>]

\* the state update settles; on success the nutzap event is built and
\* nutzapEvent.sign(signer) is called
Update(s) ==
  /\ Quiet /\ pc[s] = "update"
  /\ \/ /\ Throw(s, "relay", FailedStep(s))
        /\ UNCHANGED <<walletProofs, relayProofs, relayHasWallet>>
     \/ /\ stateUpdate(snd[s].freshWallet, snd[s].keep, destroyed(s))
        /\ snd' = [snd EXCEPT ![s].nutzapEvent =
                                nutzap(snd[s].send, snd[s].recipientNpub),
                              ![s].steps = Append(@, "update")]
        /\ pc' = [pc EXCEPT ![s] = "sign"]
        /\ UNCHANGED <<store, vb, obs>>
  /\ UNCHANGED <<mintState, amt, iw, dep, pay, prefs, localStorage, cx, hist>>

\* nutzapEvent.sign(signer) settles; nutzapEvent.publish() is called
Sign(s) ==
  /\ Quiet /\ pc[s] = "sign"
  /\ \/ Throw(s, "sign", FailedStep(s))
     \/ /\ snd' = [snd EXCEPT ![s].nutzapEvent.signed = TRUE,
                              ![s].steps = Append(@, "sign")]
        /\ pc' = [pc EXCEPT ![s] = "publish"]
        /\ obs' = Called(s, "relayCalls")
        /\ UNCHANGED <<store, vb>>
  /\ UNCHANGED <<mintState, amt, walletProofs, relayProofs, relayHasWallet, iw,
                 dep, pay, prefs, localStorage, cx, hist>>

\* await nutzapEvent.publish(); await verifyAndUpdateBalance(); return true
\* (snd.steps lists the steps of the attempt that have succeeded)
Published(s) ==
  /\ vb' = vbStart(s, "send_true", store.cashuWallet, walletProofs)
  /\ pc' = [pc EXCEPT ![s] = vbPcAt("send_true", store.cashuWallet)]
  /\ store' = store

\* (a publish that is not awaited: its failure is not seen)
PublishUnawaited(s) ==
  /\ Quiet /\ pc[s] = "publish"
  /\ Published(s)
  /\ \/ /\ obs' = Count(s, "publishes")
        /\ snd' = [snd EXCEPT ![s].steps = Append(@, "publish")]
     \/ /\ obs' = obs
        /\ snd' = [snd EXCEPT ![s].e = "publish"]
  /\ UNCHANGED <<mintState, amt, walletProofs, relayProofs, relayHasWallet, iw,
                 dep, pay, prefs, localStorage, cx, hist>>

Publish(s) ==
  /\ Quiet /\ pc[s] = "publish"
  /\ \/ Throw(s, "publish", FailedStep(s))
     \/ /\ obs' = Count(s, "publishes")
        /\ snd' = [snd EXCEPT ![s].steps = Append(@, "publish")]
        /\ Published(s)
  /\ UNCHANGED <<mintState, amt, walletProofs, relayProofs, relayHasWallet, iw,
                 dep, pay, prefs, localStorage, cx, hist>>

\* return true / return false after the closing reconciliation
SendReturn(s) ==
  /\ pc[s] \in {"send_true", "send_false"}
  /\ snd' = [snd EXCEPT ![s].result =
               IF pc[s] = "send_true" THEN "true" ELSE "false"]
  /\ pc' = [pc EXCEPT ![s] = "done"]
  /\ vb' = [vb EXCEPT ![s] = NoFrame]
  /\ UNCHANGED <<store, mintState, amt, walletProofs, relayProofs,
                 relayHasWallet, iw, obs, dep, pay, prefs, localStorage, cx,
                 hist>>

\* --------------------------------------------------------------- deposit
\* handleDeposit (its button is disabled while isDepositing):
\* setIsDepositing(true); await initiateDeposit(amount, {onSuccess, onError})
\* initiateDeposit: no wallet -> setError, null; else deposit.start()
DepositCall ==
  /\ Quiet /\ pc["dep"] = "idle" /\ ~dep.isDepositing
  /\ IF store.cashuWallet = NoWallet
     THEN /\ Set([errorMessage |-> "Wallet not initialized"])
          /\ dep' = [NoDep EXCEPT !.isDepositing = TRUE]
          /\ pc' = pc
     ELSE /\ \E a \in DepositAmounts :
               dep' = [NoDep EXCEPT !.wallet = store.cashuWallet, !.amount = a,
                                    !.isDepositing = TRUE]
          /\ pc' = [pc EXCEPT !["dep"] = "d_start"]
          /\ store' = store
  /\ UNCHANGED <<mintState, amt, walletProofs, relayProofs, relayHasWallet, vb,
                 iw, snd, obs, pay, prefs, localStorage, cx, hist>>

\* deposit.start() resolves with the invoice (setInvoice) or throws (setError)
DepositInvoice ==
  /\ Quiet /\ pc["dep"] = "d_start"
  /\ \/ /\ Set([invoice |-> dep.amount])
        /\ pc' = [pc EXCEPT !["dep"] = "d_awaiting"]
        /\ dep' = dep
     \/ /\ Set([errorMessage |-> "network"])
        /\ pc' = [pc EXCEPT !["dep"] = "d_done"]
        /\ dep' = [NoDep EXCEPT !.isDepositing = dep.isDepositing]
  /\ UNCHANGED <<mintState, amt, walletProofs, relayProofs, relayHasWallet, vb,
                 iw, snd, obs, pay, prefs, localStorage, cx, hist>>

\* what the mint may issue for a paid invoice of a: proofs worth a, or (a
\* faulty mint) worth one unit less
MintedAmounts(a) == {a} \cup (IF a > 1 THEN {a - 1} ELSE {})

\* "success": the mint has issued the proofs; the handler stores them
DepositSettle ==
  /\ Quiet /\ pc["dep"] = "d_awaiting"
  /\ FreeProofs # {}
  /\ LET p == NewProof IN
     /\ mintState' = [mintState EXCEPT ![p] = "UNSPENT"]
     /\ \E a \in MintedAmounts(dep.amount) : amt' = [amt EXCEPT ![p] = a]
     /\ dep' = [dep EXCEPT !.token = {p}]
  /\ pc' = [pc EXCEPT !["dep"] = "d_storing"]
  /\ UNCHANGED <<store, walletProofs, relayProofs, relayHasWallet, vb, iw, snd,
                 obs, pay, prefs, localStorage, cx, hist>>

\* cashuWallet.state.update({ store: token.proofs }) resolves (or rejects:
\* the handler ends there); then verifyAndUpdateBalance
DepositStore ==
  /\ Quiet /\ pc["dep"] = "d_storing"
  /\ \/ /\ stateUpdate(dep.wallet, dep.token, {})
        /\ vb' = vbStart("dep", "d_finish", store.cashuWallet, walletProofs')
        /\ pc' = [pc EXCEPT !["dep"] = vbPcAt("d_finish", store.cashuWallet)]
        /\ dep' = dep
     \/ /\ pc' = [pc EXCEPT !["dep"] = "d_done"]
        /\ dep' = [NoDep EXCEPT !.isDepositing = dep.isDepositing]
        /\ UNCHANGED <<walletProofs, relayProofs, relayHasWallet, vb>>
  /\ UNCHANGED <<store, mintState, amt, iw, snd, obs, pay, prefs, localStorage,
                 cx, hist>>

\* set({ invoice: "" }); onSuccess(newBalance), which is the caller's
\* toast and setIsDepositing(false)
\* (a handler that hands the wallet's own balance to the callback)
DepositFinishLocal ==
  /\ pc["dep"] = "d_finish"
  /\ Set([invoice |-> 0])
  /\ dep' = [NoDep EXCEPT !.cb = "success",
                          !.cbValue = walletBalanceOf(dep.wallet).v]
  /\ vb' = [vb EXCEPT !["dep"] = NoFrame]
  /\ pc' = [pc EXCEPT !["dep"] = "d_done"]
  /\ UNCHANGED <<mintState, amt, walletProofs, relayProofs, relayHasWallet, iw,
                 snd, obs, pay, prefs, localStorage, cx, hist>>

DepositFinish ==
  /\ pc["dep"] = "d_finish"
  /\ Set([invoice |-> 0])
  /\ dep' = [NoDep EXCEPT !.cb = "success", !.cbValue = vb["dep"].bal]
  /\ vb' = [vb EXCEPT !["dep"] = NoFrame]
  /\ pc' = [pc EXCEPT !["dep"] = "d_done"]
  /\ UNCHANGED <<mintState, amt, walletProofs, relayProofs, relayHasWallet, iw,
                 snd, obs, pay, prefs, localStorage, cx, hist>>

\* "error": setError, setInvoice(""), onError(e), which is the caller's
\* toast and setIsDepositing(false)
\* (a handler that leaves the invoice on display)
DepositErrorKeepingInvoice ==
  /\ Quiet /\ pc["dep"] = "d_awaiting"
  /\ Set([errorMessage |-> "Deposit failed"])
  /\ dep' = [NoDep EXCEPT !.cb = "error"]
  /\ pc' = [pc EXCEPT !["dep"] = "d_done"]
  /\ UNCHANGED <<mintState, amt, walletProofs, relayProofs, relayHasWallet, vb,
                 iw, snd, obs, pay, prefs, localStorage, cx, hist>>

DepositError ==
  /\ Quiet /\ pc["dep"] = "d_awaiting"
  /\ Set([errorMessage |-> "Deposit failed", invoice |-> 0])
  /\ dep' = [NoDep EXCEPT !.cb = "error"]
  /\ pc' = [pc EXCEPT !["dep"] = "d_done"]
  /\ UNCHANGED <<mintState, amt, walletProofs, relayProofs, relayHasWallet, vb,
                 iw, snd, obs, pay, prefs, localStorage, cx, hist>>

\* the handler (or initiateDeposit's catch) has ended; the deposit object is
\* discarded
DepositForget ==
  /\ pc["dep"] = "d_done"
  /\ dep' = [NoDep EXCEPT !.isDepositing = dep.isDepositing]
  /\ pc' = [pc EXCEPT !["dep"] = "idle"]
  /\ UNCHANGED <<store, mintState, amt, walletProofs, relayProofs,
                 relayHasWallet, vb, iw, snd, obs, pay, prefs, localStorage,
                 cx, hist>>

\* initiateDeposit() called on the store while a deposit made through the
\* UI is awaiting payment: the default amount, no callbacks; its invoice is
\* another string than the first one's, whatever the amounts
amountInSats == 10
DirectInvoice == 100 + amountInSats

\* no wallet -> setError, null; else deposit.start()
DirectDepositCall ==
  /\ Quiet /\ pc["dep2"] = "idle" /\ pc["dep"] = "d_awaiting"
  /\ IF store.cashuWallet = NoWallet
     THEN /\ Set([errorMessage |-> "Wallet not initialized"])
          /\ pc' = pc
     ELSE /\ pc' = [pc EXCEPT !["dep2"] = "d2_start"]
          /\ store' = store
  /\ UNCHANGED <<mintState, amt, walletProofs, relayProofs, relayHasWallet, vb,
                 iw, snd, obs, dep, pay, prefs, localStorage, cx, hist>>

\* deposit.start() resolves with the invoice (setInvoice) or throws (setError)
DirectDepositInvoice ==
  /\ Quiet /\ pc["dep2"] = "d2_start"
  /\ \/ /\ Set([invoice |-> DirectInvoice])
        /\ pc' = [pc EXCEPT !["dep2"] = "d2_awaiting"]
     \/ /\ Set([errorMessage |-> "network"])
        /\ pc' = [pc EXCEPT !["dep2"] = "idle"]
  /\ UNCHANGED <<mintState, amt, walletProofs, relayProofs, relayHasWallet, vb,
                 iw, snd, obs, dep, pay, prefs, localStorage, cx, hist>>

\* "error" (the invoice expires unpaid): setError, setInvoice("")
DirectDepositError ==
  /\ Quiet /\ pc["dep2"] = "d2_awaiting"
  /\ Set([errorMessage |-> "Deposit failed", invoice |-> 0])
  /\ pc' = [pc EXCEPT !["dep2"] = "idle"]
  /\ UNCHANGED <<mintState, amt, walletProofs, relayProofs, relayHasWallet, vb,
                 iw, snd, obs, dep, pay, prefs, localStorage, cx, hist>>

\* ------------------------------------------------------- session and UI
\* nsec.startsWith("nsec")
startsWithNsec(key) == key \in {UserNsec, BadNsec}

\* nsecRef || storedNsec || nostrPrivKey (and the same with the stored key
\* after the in-memory one)
resolveKeyMemoryFirst(nsecRef, storedNsec, nostrPrivKey) ==
  IF nsecRef # "" THEN nsecRef
  ELSE IF nostrPrivKey # "" THEN nostrPrivKey
  ELSE storedNsec

resolveKey(nsecRef, storedNsec, nostrPrivKey) ==
  IF nsecRef # "" THEN nsecRef
  ELSE IF storedNsec # "" THEN storedNsec
  ELSE nostrPrivKey

\* connectToNostr up to ndkInstance.connect(): the key is resolved at once
cxFrameAt(nsecRef, st, viaInit) ==
  [NoCx EXCEPT !.nsecRef = nsecRef,
               !.storedNsec = localStorage.local_nsec,
               !.nostrPrivKey = st.nostrPrivKey,
               !.nsec = resolveKey(nsecRef, localStorage.local_nsec,
                                   st.nostrPrivKey),
               !.viaInit = viaInit]

\* connectToNostr(npubRef, nsecRef) called by the UI
ConnectCall(nsecRef) ==
  /\ Quiet /\ pc["app"] = "idle"
  /\ cx' = cxFrameAt(nsecRef, store, FALSE)
  /\ pc' = [pc EXCEPT !["app"] = "cx_connect"]
  /\ hist' = Started
  /\ UNCHANGED <<store, mintState, amt, walletProofs, relayProofs,
                 relayHasWallet, vb, iw, snd, obs, dep, pay, prefs,
                 localStorage>>

\* init: the stored keys are copied into the state; with both stored,
\* connectToNostr(storedNpub, storedNsec), else false
InitCall ==
  /\ Quiet /\ pc["app"] = "idle"
  /\ LET storedNpub == localStorage.local_npub
         storedNsec == localStorage.local_nsec
         st == [store EXCEPT
                  !.nostrPubKey = IF storedNpub # "" THEN storedNpub ELSE @,
                  !.nostrPrivKey = IF storedNsec # "" THEN storedNsec ELSE @]
     IN /\ store' = st
        /\ IF storedNpub # "" /\ storedNsec # ""
           THEN /\ cx' = cxFrameAt(storedNsec, st, TRUE)
                /\ pc' = [pc EXCEPT !["app"] = "cx_connect"]
           ELSE /\ cx' = [NoCx EXCEPT !.initResult = "false"]
                /\ pc' = pc
  /\ hist' = Started
  /\ UNCHANGED <<mintState, amt, walletProofs, relayProofs, relayHasWallet, vb,
                 iw, snd, obs, dep, pay, prefs, localStorage>>

\* connectToNostr returns value v; an init awaiting it returns !!v
cxReturns(v) ==
  [cx EXCEPT !.connection = v,
             !.initResult = IF ~cx.viaInit THEN "none"
                            ELSE IF v = "object" THEN "true" ELSE "false"]

\* (a connectToNostr that marks the session connected before the key is
\* looked at)
CxConnectEarly ==
  /\ Quiet /\ pc["app"] = "cx_connect"
  /\ \/ /\ Set([errorMessage |-> "relay"])
        /\ cx' = cxReturns("null")
        /\ pc' = [pc EXCEPT !["app"] = "idle"]
     \/ IF cx.nsec = "" \/ ~startsWithNsec(cx.nsec)
        THEN /\ Set([isConnected |-> TRUE])
             /\ cx' = cxReturns("null")
             /\ pc' = [pc EXCEPT !["app"] = "idle"]
        ELSE IF decodeKey(cx.nsec) = "null"
        THEN /\ Set([errorMessage |-> "Invalid nsec key", isConnected |-> TRUE])
             /\ cx' = cxReturns("null")
             /\ pc' = [pc EXCEPT !["app"] = "idle"]
        ELSE /\ pc' = [pc EXCEPT !["app"] = "cx_signer"]
             /\ UNCHANGED <<store, cx, hist>>
  /\ UNCHANGED <<mintState, amt, walletProofs, relayProofs, relayHasWallet, vb,
                 iw, snd, obs, dep, pay, prefs, localStorage, hist>>

\* ndkInstance.connect() settles: it throws -> setError, null; the key does
\* not start with "nsec" -> null; decodeKey fails -> throw, setError, null;
\* else the signer is built
CxConnect ==
  /\ Quiet /\ pc["app"] = "cx_connect"
  /\ \/ /\ Set([errorMessage |-> "relay"])
        /\ cx' = cxReturns("null")
        /\ pc' = [pc EXCEPT !["app"] = "idle"]
     \/ IF cx.nsec = "" \/ ~startsWithNsec(cx.nsec)
        THEN /\ store' = store
             /\ cx' = cxReturns("null")
             /\ pc' = [pc EXCEPT !["app"] = "idle"]
        ELSE IF decodeKey(cx.nsec) = "null"
        THEN /\ Set([errorMessage |-> "Invalid nsec key"])
             /\ cx' = cxReturns("null")
             /\ pc' = [pc EXCEPT !["app"] = "idle"]
        ELSE /\ pc' = [pc EXCEPT !["app"] = "cx_signer"]
             /\ UNCHANGED <<store, cx, hist>>
  /\ UNCHANGED <<mintState, amt, walletProofs, relayProofs, relayHasWallet, vb,
                 iw, snd, obs, dep, pay, prefs, localStorage, hist>>

\* signer.blockUntilReady() and signer.user() settle: a throw -> setError,
\* null; else set({isConnected: true, ndkInstance, signer}) and the object
CxSigner ==
  /\ Quiet /\ pc["app"] = "cx_signer"
  /\ \/ /\ Set([errorMessage |-> "relay"])
        /\ cx' = cxReturns("null")
     \/ /\ Set([isConnected |-> TRUE, ndkInstance |-> TRUE, signer |-> TRUE])
        /\ cx' = cxReturns("object")
  /\ pc' = [pc EXCEPT !["app"] = "idle"]
  /\ UNCHANGED <<mintState, amt, walletProofs, relayProofs, relayHasWallet, vb,
                 iw, snd, obs, dep, pay, prefs, localStorage, hist>>

\* initWallet called by the UI (hydration, sign-in)
AppInitWallet ==
  /\ Quiet /\ pc["app"] = "idle"
  /\ pc' = [pc EXCEPT !["app"] = iwPcAt("app_ret", store)]
  /\ iw' = [iw EXCEPT !["app"] = iwFrameAt("app_ret", store)]
  /\ hist' = Started
  /\ UNCHANGED <<store, mintState, amt, walletProofs, relayProofs,
                 relayHasWallet, vb, snd, obs, dep, pay, prefs, localStorage,
                 cx>>

\* createNewWallet: if (!ndkInstance || !signer) return null; else
\* set({isCreatingWallet: true}), signer.user(), wallet.start
CreateCall ==
  /\ Quiet /\ pc["app"] = "idle"
  /\ IF store.ndkInstance /\ store.signer
     THEN /\ Set([isCreatingWallet |-> TRUE])
          /\ pc' = [pc EXCEPT !["app"] = "cn_start"]
          /\ iw' = [iw EXCEPT !["app"] = [NoIw EXCEPT !.ret = "cn_ret"]]
     ELSE /\ store' = store
          /\ pc' = [pc EXCEPT !["app"] = "cn_ret"]
          /\ iw' = [iw EXCEPT !["app"] = NullIw]
  /\ hist' = Started
  /\ UNCHANGED <<mintState, amt, walletProofs, relayProofs, relayHasWallet, vb,
                 snd, obs, dep, pay, prefs, localStorage, cx>>

\* wallet.start resolves (then wallet.publish) or throws: setError,
\* set({isCreatingWallet: false}), null
CreateStart ==
  /\ Quiet /\ pc["app"] = "cn_start"
  /\ \/ /\ Set([errorMessage |-> "relay", isCreatingWallet |-> FALSE])
        /\ pc' = [pc EXCEPT !["app"] = "cn_ret"]
        /\ iw' = [iw EXCEPT !["app"] = NullIw]
        /\ UNCHANGED walletProofs
     \/ /\ FreeWallets # {}
        /\ walletProofs' = [walletProofs EXCEPT ![NewWallet] = relayProofs]
        /\ iw' = [iw EXCEPT !["app"].wallet = NewWallet]
        /\ pc' = [pc EXCEPT !["app"] = "cn_publish"]
        /\ store' = store
  /\ UNCHANGED <<mintState, amt, relayProofs, relayHasWallet, vb, snd, obs,
                 dep, pay, prefs, localStorage, cx, hist>>

\* (a createNewWallet that gives up when the publication fails)
CreatePublishCritical ==
  /\ Quiet /\ pc["app"] = "cn_publish"
  /\ \/ /\ relayHasWallet' = TRUE
        /\ Set([cashuWallet |-> iw["app"].wallet, isWalletReady |-> TRUE,
                isCreatingWallet |-> FALSE])
        /\ vb' = vbStart("app", "cn_ret", iw["app"].wallet, walletProofs)
        /\ pc' = [pc EXCEPT !["app"] = vbPcAt("cn_ret", iw["app"].wallet)]
        /\ iw' = [iw EXCEPT !["app"] = [NoIw EXCEPT !.result = "wallet"]]
     \/ /\ relayHasWallet' = relayHasWallet
        /\ Set([errorMessage |-> "relay", isCreatingWallet |-> FALSE])
        /\ pc' = [pc EXCEPT !["app"] = "cn_ret"]
        /\ iw' = [iw EXCEPT !["app"] = [NullIw EXCEPT !.publishFailed = TRUE]]
        /\ vb' = vb
  /\ UNCHANGED <<mintState, amt, walletProofs, relayProofs, snd, obs, dep, pay,
                 prefs, localStorage, cx, hist>>

\* wallet.publish resolves or fails (non-critical); set({cashuWallet, ...});
\* verifyAndUpdateBalance
CreatePublish ==
  /\ Quiet /\ pc["app"] = "cn_publish"
  /\ \E ok \in BOOLEAN :
       /\ relayHasWallet' = (ok \/ relayHasWallet)
       /\ iw' = [iw EXCEPT !["app"] = [NoIw EXCEPT !.result = "wallet",
                                                  !.publishFailed = ~ok]]
  /\ Set([cashuWallet |-> iw["app"].wallet, isWalletReady |-> TRUE,
          isCreatingWallet |-> FALSE])
  /\ vb' = vbStart("app", "cn_ret", iw["app"].wallet, walletProofs)
  /\ pc' = [pc EXCEPT !["app"] = vbPcAt("cn_ret", iw["app"].wallet)]
  /\ UNCHANGED <<mintState, amt, walletProofs, relayProofs, snd, obs, dep, pay,
                 prefs, localStorage, cx, hist>>

\* createNewWallet has returned
CreateReturn ==
  /\ pc["app"] = "cn_ret"
  /\ pc' = [pc EXCEPT !["app"] = "idle"]
  /\ vb' = [vb EXCEPT !["app"] = NoFrame]
  /\ iw' = [iw EXCEPT !["app"] = NoIw]
  /\ UNCHANGED <<store, mintState, amt, walletProofs, relayProofs,
                 relayHasWallet, snd, obs, dep, pay, prefs, localStorage, cx,
                 hist>>

\* verifyAndUpdateBalance called by the UI
AppVerify ==
  /\ Quiet /\ pc["app"] = "idle"
  /\ store.cashuWallet # NoWallet
  /\ vb' = vbStart("app", "app_ret", store.cashuWallet, walletProofs)
  /\ pc' = [pc EXCEPT !["app"] = "vb_query"]
  /\ UNCHANGED <<store, mintState, amt, walletProofs, relayProofs,
                 relayHasWallet, iw, snd, obs, dep, pay, prefs, localStorage,
                 cx, hist>>

\* the UI's call returns
AppReturn ==
  /\ pc["app"] = "app_ret"
  /\ pc' = [pc EXCEPT !["app"] = "idle"]
  /\ vb' = [vb EXCEPT !["app"] = NoFrame]
  /\ iw' = [iw EXCEPT !["app"] = NoIw]
  /\ UNCHANGED <<store, mintState, amt, walletProofs, relayProofs,
                 relayHasWallet, snd, obs, dep, pay, prefs, localStorage, cx,
                 hist>>

\* the wallet library fires "balance_updated" or "ready" on instance w, which
\* carries the listeners initWallet attached: with an amount in the event the
\* listener writes it into walletBalance; without one (and on "ready") it
\* calls verifyAndUpdateBalance, not awaited
WalletEvent(w) ==
  /\ Quiet
  /\ \/ /\ Set([walletBalance |-> walletBalanceOf(w).v])
        /\ UNCHANGED <<pc, vb>>
     \/ /\ pc["ev"] = "idle"
        /\ vb' = vbStart("ev", "ev_ret", store.cashuWallet, walletProofs)
        /\ pc' = [pc EXCEPT !["ev"] = vbPcAt("ev_ret", store.cashuWallet)]
        /\ store' = store
  /\ UNCHANGED <<mintState, amt, walletProofs, relayProofs, relayHasWallet, iw,
                 snd, obs, dep, pay, prefs, localStorage, cx, hist>>

\* the listener's reconciliation has returned
EvReturn ==
  /\ pc["ev"] = "ev_ret"
  /\ pc' = [pc EXCEPT !["ev"] = "idle"]
  /\ vb' = [vb EXCEPT !["ev"] = NoFrame]
  /\ UNCHANGED <<store, mintState, amt, walletProofs, relayProofs,
                 relayHasWallet, iw, snd, obs, dep, pay, prefs, localStorage,
                 cx, hist>>

\* resetState (logout): set of the initial values
ResetState ==
  /\ Quiet
  /\ store # initialState
  /\ Set(initialState)
  /\ hist' = [hist EXCEPT !.resetQuiet = TRUE]
  /\ UNCHANGED <<mintState, amt, walletProofs, relayProofs, relayHasWallet, pc,
                 vb, iw, snd, obs, dep, pay, prefs, localStorage, cx>>

\* (a logout that leaves the stored keys in place)
LogoutKeepingKeys ==
  /\ Quiet
  /\ store # initialState \/ localStorage # NoKeys
  /\ Set(initialState)
  /\ hist' = [loggedOut |-> TRUE, resetQuiet |-> TRUE]
  /\ UNCHANGED <<mintState, amt, walletProofs, relayProofs, relayHasWallet, pc,
                 vb, iw, snd, obs, dep, pay, prefs, localStorage, cx>>

\* handleLogout: the identity's logout() removes the stored keys, then
\* resetState()
Logout ==
  /\ Quiet
  /\ store # initialState \/ localStorage # NoKeys
  /\ localStorage' = NoKeys
  /\ Set(initialState)
  /\ hist' = [loggedOut |-> TRUE, resetQuiet |-> TRUE]
  /\ UNCHANGED <<mintState, amt, walletProofs, relayProofs, relayHasWallet, pc,
                 vb, iw, snd, obs, dep, pay, prefs, cx>>

\* user.npub of the signer built from a decoded key
npubOf(key) == IF key = UserNsec THEN UserNpub ELSE "npub1derived"

\* auth(nsec) of the identity hook: bech32-decodes the key (any valid bech32
\* string passes), and stores the signer's npub and the key; a key that
\* does not decode stores nothing
Auth(key) ==
  /\ Quiet
  /\ key # ""
  /\ IF decodeKey(key) = "null"
     THEN UNCHANGED <<localStorage, hist>>
     ELSE /\ localStorage' = [local_npub |-> npubOf(key), local_nsec |-> key]
          /\ hist' = [hist EXCEPT !.loggedOut = FALSE]
  /\ localStorage' # localStorage
  /\ UNCHANGED <<store, mintState, amt, walletProofs, relayProofs,
                 relayHasWallet, pc, vb, iw, snd, obs, dep, pay, prefs, cx>>

\* generateNostrKeys of the identity hook: a new identity, with nothing on
\* the relays, whose keys are stored
GenerateKeys ==
  /\ Quiet
  /\ localStorage = NoKeys /\ ~relayHasWallet /\ relayProofs = {}
  /\ localStorage' = UserKeys
  /\ hist' = [hist EXCEPT !.loggedOut = FALSE]
  /\ UNCHANGED <<store, mintState, amt, walletProofs, relayProofs,
                 relayHasWallet, pc, vb, iw, snd, obs, dep, pay, prefs, cx>>

\* the user clears the site's data in the browser
StorageCleared ==
  /\ Quiet
  /\ localStorage # NoKeys
  /\ localStorage' = NoKeys
  /\ UNCHANGED <<store, mintState, amt, walletProofs, relayProofs,
                 relayHasWallet, pc, vb, iw, snd, obs, dep, pay, prefs, cx,
                 hist>>

\* ----------------------------------------------------- the other session
\* another session of the same identity spends, or starts spending, a proof
ExternalSpend(p) ==
  /\ Quiet
  /\ p \in relayProofs
  /\ mintState[p] \in {"UNSPENT", "PENDING"}
  /\ mintState' = [mintState EXCEPT ![p] = "SPENT"]
  /\ UNCHANGED <<store, amt, walletProofs, relayProofs, relayHasWallet, pc, vb,
                 iw, snd, obs, dep, pay, prefs, localStorage, cx, hist>>

ExternalPending(p) ==
  /\ Quiet
  /\ p \in relayProofs
  /\ mintState[p] = "UNSPENT"
  /\ mintState' = [mintState EXCEPT ![p] = "PENDING"]
  /\ UNCHANGED <<store, amt, walletProofs, relayProofs, relayHasWallet, pc, vb,
                 iw, snd, obs, dep, pay, prefs, localStorage, cx, hist>>

\* that session's state reaches the relays: its spent proofs are dropped
ExternalSync ==
  /\ Quiet
  /\ \E p \in relayProofs : mintState[p] = "SPENT"
  /\ relayProofs' = {p \in relayProofs : mintState[p] # "SPENT"}
  /\ UNCHANGED <<store, mintState, amt, walletProofs, relayHasWallet, pc, vb,
                 iw, snd, obs, dep, pay, prefs, localStorage, cx, hist>>

\* ------------------------------------------------------- specifications
\* A session with a wallet loaded: connected, the wallet instance holding up
\* to MaxHeld proofs, each unspent, pending or spent at the mint (the other
\* session of the identity may have used it), the spent ones still on the
\* relays or already dropped there, the displayed balance their sum or 0.
\* Proofs are interchangeable, so they are numbered by decreasing amount.
InitLoadedWith(published) ==
  /\ prefs \in published
  /\ localStorage = UserKeys
  /\ cx = NoCx
  /\ hist = NoHist
  /\ \E n \in 0..MaxHeld :
       LET held == 1..n IN
       /\ amt \in [Proofs -> DepositAmounts \cup {0}]
       /\ \A p \in Proofs : (amt[p] = 0) <=> (p \notin held)
       /\ \A p, q \in held : p < q => amt[p] >= amt[q]
       /\ mintState \in [Proofs -> {"NONE", "UNSPENT", "PENDING", "SPENT"}]
       /\ \A p \in Proofs : (mintState[p] = "NONE") <=> (p \notin held)
       /\ walletProofs = [w \in Wallets |-> IF w = 1 THEN held ELSE {}]
       /\ relayProofs \in {held, {p \in held : mintState[p] # "SPENT"}}
       /\ \E b \in {0, SumAmt(amt, held)} :
            store = [initialState EXCEPT
                       !.nostrPubKey = UserNpub, !.nostrPrivKey = UserNsec,
                       !.isConnected = TRUE, !.ndkInstance = TRUE,
                       !.signer = TRUE, !.cashuWallet = 1,
                       !.isWalletReady = TRUE, !.walletBalance = b]
  /\ relayHasWallet = TRUE
  /\ pc = [p \in Procs |-> "idle"]
  /\ vb = [p \in Procs |-> NoFrame]
  /\ iw = [p \in Procs |-> NoIw]
  /\ snd = [s \in SendIds |-> NoSend]
  /\ obs = [s \in SendIds |-> NoObs]
  /\ dep = NoDep
  /\ pay = [p \in PayProcs |-> NoPay]

\* the same, the recipient having published no payment preferences
InitLoaded == InitLoadedWith({<<>>})

SendStep(s) ==
  \/ SendCall(s) \/ Backoff(s) \/ SendFresh(s) \/ Lookup(s) \/ SendInfo(s)
  \/ GetMint(s)
  \/ Check(s) \/ Split(s) \/ Update(s) \/ Sign(s) \/ Publish(s)
  \/ SendReturn(s)
  \/ VbQuery(s) \/ VbSet(s) \/ IwFetch(s) \/ IwStart(s)

External ==
  \/ \E p \in Proofs : ExternalSpend(p) \/ ExternalPending(p)
  \/ ExternalSync

\* some send of S is running
Busy(S) == \E s \in S : pc[s] \notin {"idle", "done"}

\* one send invocation in a loaded session, the other session of the identity
\* spending while it runs, a logout possible until it has returned
Next ==
  \/ SendStep("s1")
  \/ Busy({"s1"}) /\ External
  \/ pc["s1"] # "done" /\ ResetState
  \/ Collect
Spec == InitLoaded /\ [][Next]_vars

\* the scenario of one 10-sat proof, unspent, the displayed balance 10
InitOneProof ==
  /\ InitLoaded
  /\ walletProofs[1] = {1} /\ amt[1] = 10 /\ mintState[1] = "UNSPENT"
  /\ relayProofs = {1} /\ store.walletBalance = 10

\* the store's send called again while a send is running
NextConc == (\E s \in SendIds : SendStep(s)) \/ Collect
SpecConc == InitOneProof /\ [][NextConc]_vars

\* the UI reconciling a loaded session again and again, the other session of
\* the identity spending meanwhile, a logout possible at any time
NextVb ==
  \/ AppVerify \/ VbQuery("app") \/ VbSet("app") \/ AppReturn
  \/ External
  \/ ResetState
  \/ Collect
SpecVb == InitLoaded /\ [][NextVb]_vars

\* the wallet of a loaded session: the one initWallet built at sign-in, so it
\* carries the listeners
LoadedWallet == 1

Deposit ==
  \/ DepositCall \/ DepositInvoice \/ DepositSettle \/ DepositStore
  \/ VbQuery("dep") \/ VbSet("dep")
  \/ DepositFinish \/ DepositError

Listener == VbQuery("ev") \/ VbSet("ev") \/ EvReturn

\* a deposit in a loaded session up to its callback, the wallet's events
\* arriving while it is under way, the other session spending, a logout
\* possible at any time
NextDep ==
  \/ Deposit
  \/ Busy({"dep"}) /\ WalletEvent(LoadedWallet)
  \/ Listener
  \/ Busy({"dep"}) /\ External
  \/ ResetState
  \/ Collect
\* a loaded session with room for the proof the deposit adds
InitDep == InitLoaded /\ Cardinality(walletProofs[LoadedWallet]) < MaxHeld
SpecDep == InitDep /\ [][NextDep]_vars

\* one send to any recipient, and payment-info lookups made directly on the
\* store, with the session being reset at any moment, whatever the recipient
\* has published; the wallet holds one 10-sat proof, unspent or spent already
\* by the other session
PayInfo == AppFetchInfo \/ Lookup("app") \/ AppInfo
NextPay ==
  \/ \E r \in Recipients : SendCallTo("s1", r)
  \/ SendStep("s1")
  \/ PayInfo
  \/ ResetState
  \/ Collect
InitPay ==
  /\ InitLoadedWith(PublishedPrefs)
  /\ walletProofs[1] = {1} /\ amt[1] = 10
  /\ mintState[1] \in {"UNSPENT", "SPENT"}
  /\ relayProofs = {1} /\ store.walletBalance = 10
SpecPay == InitPay /\ [][NextPay]_vars

\* the event loop runs every pending continuation, and the deposit object
\* emits "success" or "error" for every invoice it has handed out
\* the same send in a session holding fewer than MaxHeld proofs, every call
\* it awaits settling and every timer firing: a pending step of the send is
\* taken, and dropped wallet objects are collected
InitFair == InitLoaded /\ Cardinality(walletProofs[LoadedWallet]) < MaxHeld
SpecFair ==
  InitFair /\ [][Next]_vars /\ WF_vars(SendStep("s1")) /\ WF_vars(Collect)

\* one send in a session holding MaxHeld proofs, all unspent, with a mint
\* whose proof-state replies may be any list of states, of any length up to
\* that of the request
InitAny ==
  /\ InitLoaded
  /\ Cardinality(walletProofs[LoadedWallet]) = MaxHeld
  /\ \A p \in walletProofs[LoadedWallet] : mintState[p] = "UNSPENT"
  /\ relayProofs = walletProofs[LoadedWallet]
  /\ store.walletBalance > 0
NextAny ==
  \/ SendStep("s1") \/ CheckAny("s1") \/ VbQueryAny("s1")
  \/ Collect
SpecAny == InitAny /\ [][NextAny]_vars

SpecDepFair == SpecDep /\ WF_vars(NextDep) /\ SF_vars(Deposit)

\* a deposit in a loaded session up to its callback, the application
\* calling initWallet again while it is under way
NextSwap ==
  \/ Deposit
  \/ Busy({"dep"}) /\ AppInitWallet
  \/ IwFetch("app") \/ IwStart("app")
  \/ VbQuery("app") \/ VbSet("app") \/ AppReturn
  \/ Collect
SpecSwap == InitDep /\ [][NextSwap]_vars

\* a deposit in a loaded session up to its callback, the application
\* reconciling while it is under way: the displayed balance is written by
\* the reconciliations only
NextOverlap ==
  \/ Deposit
  \/ Busy({"dep"}) /\ AppVerify
  \/ VbQuery("app") \/ VbSet("app") \/ AppReturn
SpecOverlap == InitDep /\ [][NextOverlap]_vars

\* a deposit made through the UI in a loaded session, up to its callback,
\* and a second one started directly on the store while the first awaits
\* payment; the second invoice is never paid
NextTwoDeposits ==
  \/ Deposit
  \/ DirectDepositCall \/ DirectDepositInvoice \/ DirectDepositError
SpecTwoDeposits == InitDep /\ [][NextTwoDeposits]_vars

\* A session from the start of the application: nothing in the store, the
\* keys of the identity stored by an earlier visit or not, and on the relays
\* a wallet of the identity or none, with up to one proof, unspent or spent
\* already by another session.
InitSession ==
  /\ store = initialState
  /\ localStorage \in {NoKeys, UserKeys}
  /\ relayHasWallet \in BOOLEAN
  /\ \E held \in {{}, {1}} :
       /\ relayHasWallet \/ held = {}
       /\ relayProofs = held
       /\ amt = [p \in Proofs |-> IF p \in held THEN 10 ELSE 0]
       /\ mintState \in [Proofs -> {"NONE", "UNSPENT", "SPENT"}]
       /\ \A p \in Proofs : (mintState[p] = "NONE") <=> (p \notin held)
  /\ walletProofs = [w \in Wallets |-> {}]
  /\ pc = [p \in Procs |-> "idle"]
  /\ vb = [p \in Procs |-> NoFrame]
  /\ iw = [p \in Procs |-> NoIw]
  /\ snd = [s \in SendIds |-> NoSend]
  /\ obs = [s \in SendIds |-> NoObs]
  /\ dep = NoDep
  /\ pay = [p \in PayProcs |-> NoPay]
  /\ prefs = <<>>
  /\ cx = NoCx
  /\ hist = NoHist

\* the application signing in, connecting, loading or creating the wallet
\* and reconciling, one call after the other, the user signing in, creating
\* an account, logging out or clearing the site's data at any time
NextSession ==
  \/ \E key \in NsecRefs : Auth(key)
  \/ GenerateKeys
  \/ Logout
  \/ StorageCleared
  \/ InitCall
  \/ \E nsecRef \in NsecRefs : ConnectCall(nsecRef)
  \/ CxConnect \/ CxSigner
  \/ AppInitWallet \/ IwFetch("app") \/ IwStart("app")
  \/ CreateCall \/ CreateStart \/ CreatePublish \/ CreateReturn
  \/ AppVerify \/ VbQuery("app") \/ VbSet("app") \/ AppReturn
  \/ Collect
SpecSession == InitSession /\ [][NextSession]_vars

\* ------------------------------------------------------------ properties
Min(a, b) == IF a < b THEN a ELSE b
AfterSplit == {"update", "sign", "publish", "vb_query", "vb_set",
               "send_true", "send_false", "done"}
AfterError == {"vb_query", "vb_set", "send_false", "done"}

\* C1: within one send invocation, retries included, the mint's split succeeds
\* at most once: from the successful split on the invocation is only ever in
\* the steps after the split (it never enters another attempt, whichever of
\* the state update, the signing or the publication fails), and the value
\* moved out is the requested amount.
C1_SplitAtMostOnce ==
  \A s \in SendIds :
    /\ obs[s].splits <= 1
    /\ obs[s].splits = 1 =>
         /\ pc[s] \in AfterSplit
         /\ SumProofs(snd[s].send) = amount
         /\ obs[s].attempts = snd[s].retryCount + 1

\* a send that has split and then failed in a later step
C1_Witness ==
  \E s \in SendIds :
    /\ pc[s] = "done" /\ snd[s].result = "false"
    /\ obs[s].splits = 1 /\ snd[s].e \in {"relay", "sign"}

\* C2: at most one send is in flight against the proof set at a time: no two
\* send invocations are both past their state check and before their local
\* state update with a proof in common.
C2_OneMutatingOperation ==
  \A s, t \in SendIds :
    (/\ s # t
     /\ pc[s] \in {"split", "update"}
     /\ pc[t] \in {"split", "update"}) =>
      snd[s].validProofs \cap snd[t].validProofs = {}

\* C3: a send all of whose attempts fail with a stale-proof error ends
\* returning false after exactly MAX_RETRIES + 1 attempts, each of which has
\* had the proof states checked by the mint.
C3_StaleOnEveryAttempt ==
  \A s \in SendIds :
    (pc[s] = "done" /\ obs[s].attempts >= 1
       /\ obs[s].stale = obs[s].attempts) =>
      /\ snd[s].result = "false"
      /\ obs[s].attempts = MAX_RETRIES + 1
      /\ obs[s].checks = MAX_RETRIES + 1

C3_Witness ==
  \E s \in SendIds :
    /\ pc[s] = "done" /\ obs[s].stale = MAX_RETRIES + 1
    /\ obs[s].attempts = MAX_RETRIES + 1 /\ snd[s].result = "false"

\* C4 as stated: every further attempt after a stale-proof failure has the
\* proof states checked again: a finished send of two or more attempts has
\* checked once per attempt.
C4_EveryRetryRechecks ==
  \A s \in SendIds :
    (pc[s] = "done" /\ obs[s].attempts >= 2) =>
      obs[s].checks = obs[s].attempts

\* C4: a stale-proof failure of an attempt with retryCount < MAX_RETRIES is
\* followed by a further attempt with retryCount + 1 entered from the top of
\* send; every attempt but the last has checked the proof states, and the last
\* one has either checked them too or ended before fetching any proof (at a
\* guard, at the wallet refresh or at the mint client).
C4_RetryFromTheTop ==
  \A s \in SendIds :
    /\ pc[s] = "backoff" =>
         /\ StaleProofError(snd[s].e) /\ snd[s].retryCount < MAX_RETRIES
         /\ obs[s].attempts = snd[s].retryCount + 1
    /\ pc[s] = "done" =>
         /\ obs[s].attempts >= Min(obs[s].stale + 1, MAX_RETRIES + 1)
         /\ obs[s].attempts = snd[s].retryCount + 1
         /\ obs[s].checks = obs[s].attempts
              - (IF snd[s].proofs = {} THEN 1 ELSE 0)

\* a retried send whose last attempt has checked the proof states again
C4_Witness ==
  \E s \in SendIds :
    /\ pc[s] = "done" /\ obs[s].attempts >= 2
    /\ obs[s].checks = obs[s].attempts /\ obs[s].stale >= 1

\* C5: a send whose first attempt fails with a stale-proof error and whose
\* second attempt succeeds returns true with retryCount 1, one nutzap
\* published and one successful split.
C5_StaleOnceThenSuccess ==
  \A s \in SendIds :
    (pc[s] = "done" /\ snd[s].result = "true" /\ obs[s].stale = 1) =>
      /\ snd[s].retryCount = 1
      /\ obs[s].attempts = 2
      /\ obs[s].publishes = 1
      /\ obs[s].splits = 1

C5_Witness ==
  \E s \in SendIds :
    /\ pc[s] = "done" /\ snd[s].result = "true"
    /\ obs[s].stale = 1 /\ obs[s].attempts = 2

\* C6: once an attempt has caught an error that is not a stale-proof error,
\* the send only reconciles and returns false: no further attempt starts,
\* whatever the retry count.
C6_OtherErrorsFailAtOnce ==
  \A s \in SendIds :
    (snd[s].e # "none" /\ ~StaleProofError(snd[s].e)) =>
      /\ pc[s] \in AfterError
      /\ obs[s].fatal = 1
      /\ obs[s].attempts = snd[s].retryCount + 1
      /\ pc[s] = "done" => snd[s].result = "false"

\* a send that failed on such an error in a retried attempt
C6_Witness ==
  \E s \in SendIds :
    /\ pc[s] = "done" /\ snd[s].result = "false"
    /\ snd[s].e = "network" /\ snd[s].retryCount >= 1

\* the state a reply gives for proof p of the proofs asked about: that of the
\* entry at p's position in the list, if the reply has one
EntryFor(proofs, proofStates, p) ==
  LET n == Cardinality({q \in proofs : q <= p})
  IN IF n <= Len(proofStates) THEN proofStates[n].state ELSE "undefined"
ReportedState(s, p) == EntryFor(snd[s].proofs, snd[s].proofStates, p)

\* C7: whenever send issues the split, the proofs reported UNSPENT by the
\* state check of the same attempt are worth at least the amount, and the
\* split's input is exactly that set: no proof reported in any other state is
\* passed to the mint.
C7_SplitInputIsUnspentSet ==
  \A s \in SendIds :
    pc[s] = "split" =>
      LET reported == {p \in snd[s].proofs : ReportedState(s, p) = "UNSPENT"}
      IN /\ splitInput(s) = reported
         /\ SumAmt(amt, reported) >= amount
         /\ \A p \in splitInput(s) : ReportedState(s, p) = "UNSPENT"

\* a split issued after the check has dropped a proof of the fetched set
C7_Witness ==
  \E s \in SendIds :
    /\ pc[s] = "split"
    /\ \E p \in snd[s].proofs : ReportedState(s, p) # "UNSPENT"

\* the first step of a send invocation
Invoked(s) == pc[s] = "idle" /\ pc'[s] # "idle"
FailedAtOnce(s, msg) ==
  /\ pc'[s] = "done"
  /\ snd'[s].result = "false"
  /\ snd'[s].logged = msg
  /\ ~obs'[s].mintCalls /\ ~obs'[s].relayCalls
  /\ obs'[s].checks = 0 /\ obs'[s].splits = 0
  /\ store' = store

TenToNine(s) ==
  /\ Cardinality(snd[s].proofs) = 1
  /\ \A p \in snd[s].proofs : amt[p] = 10
  /\ walletProofs[snd[s].freshWallet] \in {snd[s].proofs, snd[s].keep}
  /\ Cardinality(snd[s].keep) = 1
  /\ \A p \in snd[s].keep : amt[p] = 9

\* C9: the local state update after a successful split leaves the wallet with
\* the set it held before, minus every proof fetched before the verification,
\* plus the keep proofs; from a single 10-unit proof and a change of 9 the set
\* becomes one proof of 9, and the closing reconciliation stores 9 unless the
\* mint no longer reports that proof unspent.
C9_LocalUpdate ==
  [][\A s \in SendIds :
       LET w == snd[s].freshWallet IN
       /\ (pc[s] = "update" /\ pc'[s] = "sign") =>
            /\ walletProofs'[w] = (walletProofs[w] \ snd[s].proofs)
                                    \cup snd[s].keep
            /\ TenToNine(s) =>
                 /\ walletProofs'[w] = snd[s].keep
                 /\ SumAmt(amt, walletProofs'[w]) = 9
       /\ (/\ pc[s] = "vb_set" /\ pc'[s] = "send_true"
           /\ vb[s].wallet = w /\ TenToNine(s)) =>
            \/ store'.walletBalance = 9
            \/ /\ store'.walletBalance = 0
               /\ \A p \in snd[s].keep : mintState[p] # "UNSPENT"]_vars

\* the scenario after its closing reconciliation
C9_Witness ==
  \E s \in SendIds :
    /\ pc[s] = "done" /\ snd[s].result = "true" /\ TenToNine(s)
    /\ walletProofs[snd[s].freshWallet] = snd[s].keep
    /\ \E p \in snd[s].proofs : ReportedState(s, p) = "UNSPENT"
    /\ store.walletBalance = 9

\* C10: a send returns true only if the change and the amount sent add up to
\* the value of the valid proofs put into the split.
C10_Conservation ==
  \A s \in SendIds :
    (pc[s] = "done" /\ snd[s].result = "true") =>
      SumAmt(amt, snd[s].keep) + SumProofs(snd[s].send)
        = SumAmt(amt, snd[s].validProofs)

C12_PublishFailureKeepsSplit ==
  \A s \in SendIds :
    snd[s].e = "publish" =>
      /\ pc[s] \in AfterError
      /\ obs[s].splits = 1 /\ obs[s].publishes = 0
      /\ snd[s].keep \subseteq walletProofs[snd[s].freshWallet]
      /\ walletProofs[snd[s].freshWallet] \cap snd[s].validProofs = {}
      /\ \A p \in snd[s].validProofs : mintState[p] = "SPENT"
      /\ pc[s] = "done" => snd[s].result = "false"

\* a send returned after a failed publication, holding the change
C12_Witness ==
  \E s \in SendIds :
    /\ pc[s] = "done" /\ snd[s].result = "false" /\ snd[s].e = "publish"
    /\ snd[s].keep # {}
    /\ walletProofs[snd[s].freshWallet] = snd[s].keep

\* the local proof set a running reconciliation works on
LocalSet(p) == walletProofs[vb[p].wallet]

\* C13: whatever the mint answers, a failed query included, the value a
\* reconciliation is about to return does not exceed the sum of the amounts of
\* the local proof set.
C13_ReconcileAtMostLocalSum ==
  \A p \in Procs :
    pc[p] = "vb_set" => reconciled(vb[p]) <= SumAmt(amt, LocalSet(p))

\* a reconciliation whose query failed over a set worth less than the
\* displayed balance
C13_Witness ==
  \E p \in Procs :
    /\ pc[p] = "vb_set" /\ vb[p].failed
    /\ SumAmt(amt, LocalSet(p)) < store.walletBalance
    /\ reconciled(vb[p]) = SumAmt(amt, LocalSet(p))

\* C14: when the mint answers, the reconciliation's value is exactly the sum
\* of the amounts of the local proofs the mint holds as UNSPENT; with no local
\* proof the value is 0 and there is no query that could fail.
C14_ReconcileSumsUnspent ==
  [][\A p \in Procs :
       (pc[p] = "vb_query" /\ pc'[p] = "vb_set") =>
         /\ ~vb'[p].failed =>
              vb'[p].bal = SumAmt(amt, {q \in LocalSet(p) :
                                          mintState[q] = "UNSPENT"})
         /\ LocalSet(p) = {} =>
              /\ ~vb'[p].failed /\ vb'[p].bal = 0
              /\ obs' = obs]_vars

\* an answered reconciliation that left a pending proof out of the sum
C14_Witness ==
  \E p \in Procs :
    /\ pc[p] = "vb_set" /\ ~vb[p].failed
    /\ \E q \in LocalSet(p) : mintState[q] = "PENDING"
    /\ \E q \in LocalSet(p) : mintState[q] = "UNSPENT"
    /\ vb[p].bal = SumAmt(amt, {q \in LocalSet(p) : mintState[q] = "UNSPENT"})

\* C15: when the query fails the reconciliation still returns to its caller:
\* it stores in walletBalance, and returns, the wallet's own balance, the sum
\* of its local proofs.
C15_ReconcileFallsBack ==
  [][\A p \in Procs :
       (pc[p] = "vb_set" /\ pc'[p] # "vb_set" /\ vb[p].failed) =>
         /\ pc'[p] = vb[p].ret
         /\ store'.walletBalance = SumAmt(amt, LocalSet(p))
         /\ vb'[p].bal = SumAmt(amt, LocalSet(p))
         /\ store'.errorMessage = store.errorMessage]_vars

\* a reconciliation returned to the UI with the local sum although a local
\* proof is spent at the mint
C15_Witness ==
  /\ pc["app"] = "app_ret"
  /\ store.cashuWallet # NoWallet
  /\ \E q \in walletProofs[store.cashuWallet] : mintState[q] = "SPENT"
  /\ store.walletBalance = SumAmt(amt, walletProofs[store.cashuWallet])
  /\ vb["app"].bal = store.walletBalance

\* C16: the steps of a reconciliation change nothing but the displayed
\* balance: the local proof sets, the relays' copy, the mint's states, the
\* wallet instance, the invoice and the error message stay as they are,
\* whether the query is answered or fails.
C16_ReconcileOnlyWritesBalance ==
  [][\A p \in Procs :
       (pc[p] \in {"vb_query", "vb_set"} /\ pc'[p] # pc[p]) =>
         /\ walletProofs' = walletProofs
         /\ relayProofs' = relayProofs
         /\ mintState' = mintState /\ amt' = amt
         /\ store' = [store EXCEPT !.walletBalance = store'.walletBalance]
         /\ pc[p] = "vb_query" => store' = store]_vars

\* a reconciliation that has lowered the displayed balance after a failure
\* was on display
C16_Witness ==
  /\ pc["app"] = "app_ret"
  /\ store.cashuWallet # NoWallet
  /\ walletProofs[store.cashuWallet] # {}
  /\ store.walletBalance < SumAmt(amt, walletProofs[store.cashuWallet])

\* C17: every change of the displayed balance is made by the closing set of a
\* reconciliation, with the value that reconciliation returns, or by
\* resetState: no other event writes into walletBalance.
C17_BalanceOnlyFromReconcile ==
  [][store'.walletBalance # store.walletBalance =>
       \/ \E p \in Procs :
            /\ pc[p] = "vb_set" /\ pc'[p] # "vb_set"
            /\ store'.walletBalance = reconciled(vb[p])
       \/ store' = initialState]_vars

\* C18: on settlement the minted proofs are in the wallet's proof set before
\* the reconciliation of the handler starts, the invoice stays on display
\* until that reconciliation has returned, and the handler then clears the
\* invoice and calls the success callback with the value the reconciliation
\* returned.
C18_SettlementOrder ==
  [][/\ (pc["dep"] = "d_storing" /\ pc'["dep"] \in {"vb_query", "d_finish"}) =>
          /\ dep.token \subseteq walletProofs'[dep.wallet]
          /\ store'.invoice = store.invoice
          /\ dep'.cb = "none"
     /\ (pc["dep"] # "d_finish" /\ pc'["dep"] = "d_finish") =>
          \/ pc["dep"] = "vb_set" /\ dep'.cb = "none"
          \/ pc["dep"] = "d_storing" /\ store.cashuWallet = NoWallet
     /\ (pc["dep"] = "d_finish" /\ pc'["dep"] # "d_finish") =>
          /\ store'.invoice = 0
          /\ dep'.cb = "success"
          /\ dep'.cbValue = vb["dep"].bal]_vars

\* a success callback called with less than the wallet's own sum: a proof
\* held before the deposit is spent at the mint
C18_Witness ==
  /\ pc["dep"] = "d_done" /\ dep.cb = "success"
  /\ store.invoice = 0
  /\ store.cashuWallet # NoWallet
  /\ dep.cbValue >= 1
  /\ dep.cbValue < SumAmt(amt, walletProofs[store.cashuWallet])

\* C19: the proofs a settled deposit has put into the proof set are worth the
\* amount requested for the invoice.
C19_DepositAmountMatches ==
  (dep.token # {} /\ dep.token \subseteq walletProofs[dep.wallet]) =>
    SumAmt(amt, dep.token) = dep.amount

\* C20: when the deposit's error event arrives the handler sets the error
\* message, clears the invoice and calls the failure callback; the proof
\* sets, the mint and the displayed balance are as before, and the operation
\* is over: no invoice is requested by the handler.
C20_DepositFailure ==
  [][(pc["dep"] = "d_awaiting" /\ pc'["dep"] = "d_done"
        /\ dep'.cb # "none") =>
       /\ dep'.cb = "error"
       /\ store'.errorMessage # "null"
       /\ store'.invoice = 0
       /\ store'.walletBalance = store.walletBalance
       /\ walletProofs' = walletProofs /\ relayProofs' = relayProofs
       /\ mintState' = mintState
       /\ dep'.amount = 0 /\ dep'.token = {}]_vars

\* a failed deposit after its failure callback
C20_Witness ==
  /\ pc["dep"] = "d_done" /\ dep.cb = "error"
  /\ store.invoice = 0 /\ store.errorMessage = "Deposit failed"
  /\ store.cashuWallet # NoWallet

\* C21 (as claimed): every handleDeposit is eventually notified, by onSuccess
\* or by onError, so that isDepositing returns to false; this includes the
\* calls made without a wallet and those whose invoice request fails.
C21_DepositEventuallyNotified == dep.isDepositing ~> ~dep.isDepositing

\* the values of the tags named t in a fetched reply's event
Range(seq) == {seq[i] : i \in 1..Len(seq)}
Declared(reply, t) ==
  IF reply.ok /\ Len(reply.events) > 0
  THEN {tag[2] : tag \in {x \in Range(reply.events[1]) : x[1] = t /\ x[2] # ""}}
  ELSE {}

\* C22 (as claimed, for a recipient key that decodes): whatever the outcome
\* of the preference lookup, fetchUserPaymentInfo returns a non-empty mint
\* list, and a lock key that is the key the recipient declares if there is
\* one and the recipient's own hex identity key otherwise.
C22_LookupAlwaysYieldsLockKey ==
  \A p \in PayProcs :
    (pc[p] \in {"send_info", "app_info"}
       /\ decodeKey(pay[p].recipientNpub) # "null") =>
      LET f == pay[p] IN
      /\ Len(f.info.mints) > 0
      /\ IF Declared(f.reply, "pubkey") # {}
         THEN f.info.p2pkPubkey \in Declared(f.reply, "pubkey")
         ELSE f.info.p2pkPubkey = decodeKey(f.recipientNpub)

\* C23 (as claimed): every split issued by send carries a lock key that is
\* not null and is the recipient's (declared or identity) key, and the send
\* proofs of a nutzap handed to the relays are all locked.
C23_SplitAlwaysLocked ==
  \A s \in SendIds :
    /\ pc[s] = "split" =>
         /\ snd[s].p2pkPubkey # "null"
         /\ snd[s].p2pkPubkey \in {decodeKey(snd[s].recipientNpub), DeclaredKey}
    /\ obs[s].publishes > 0 =>
         \A i \in 1..Len(snd[s].send) : snd[s].send[i].lock # "null"

\* C24 (as claimed): the mint send goes on to work with is one of the mints
\* fetchUserPaymentInfo returned for the recipient, which are the declared
\* ones when there are any and the default mint only otherwise.
C24_MintIsAcceptedByRecipient ==
  [][\A s \in SendIds :
       (pc[s] = "send_info" /\ pc'[s] = "getmint") =>
         snd'[s].mint \in Range(pay[s].info.mints)]_vars

\* C25 (as claimed): a published nutzap carries one proof tag for each send
\* proof of the split and no other, the amount, the unit, the mint of the
\* split and the recipient's hex identity key, which is not null.
C25_NutzapContents ==
  \A s \in SendIds :
    obs[s].publishes > 0 =>
      LET ev == snd[s].nutzapEvent IN
      /\ ev.signed
      /\ Len(ev.proofTags) = Len(snd[s].send)
      /\ \A i \in 1..Len(snd[s].send) :
           ev.proofTags[i] = <<"proof", [json |-> snd[s].send[i]]>>
      /\ SumProofs(snd[s].send) = amount
      /\ ev.tags[1] = <<"amount", "1">>
      /\ ev.tags[2] = <<"unit", "sat">>
      /\ ev.tags[3] = <<"u", snd[s].mint>>
      /\ ev.tags[4][1] = "p"
      /\ ev.tags[4][2] = decodeKey(snd[s].recipientNpub)
      /\ ev.tags[4][2] # "null"

\* an error was caught in the running attempt after its proofs had been
\* checked: the split, the state update, the signing or the publishing failed
CaughtAfterCheck(s) == snd[s].e # "none" /\ snd[s].validProofs # {}

\* C26: send returns true only from an attempt in which the split, the local
\* state update, the signing and the publishing succeeded, in this order, and
\* in which no error was caught; an invocation whose last attempt caught an
\* error returns false.
C26_TrueOnlyAfterAllSteps ==
  \A s \in SendIds :
    /\ (pc[s] = "send_true" \/ snd[s].result = "true") =>
         /\ snd[s].steps = <<"split", "update", "sign", "publish">>
         /\ snd[s].e = "none"
         /\ snd[s].nutzapEvent.signed /\ obs[s].publishes = 1
    /\ (pc[s] = "done" /\ snd[s].e # "none") => snd[s].result = "false"
    /\ CaughtAfterCheck(s) => obs[s].stepFailed /\ pc[s] # "send_true"
    /\ pc[s] = "update" => snd[s].steps = <<"split">>
    /\ pc[s] = "sign" => snd[s].steps = <<"split", "update">>
    /\ pc[s] = "publish" => snd[s].steps = <<"split", "update", "sign">>

\* a send has returned true on a retry, after an attempt whose split failed
C26_Witness ==
  \E s \in SendIds :
    /\ pc[s] = "done" /\ snd[s].result = "true"
    /\ snd[s].retryCount > 0 /\ obs[s].stale > 0 /\ obs[s].splits = 1

\* C26 as stated: when one of the steps has failed, that call of send does
\* not return true.
C26_FailedStepNeverTrue ==
  \A s \in SendIds : obs[s].stepFailed => snd[s].result # "true"

\* C27: every send invocation ends, returning true or false, after at most
\* MAX_RETRIES + 1 attempts and with a retry counter of at most MAX_RETRIES.
C27_SendTerminates ==
  /\ \A s \in SendIds : pc[s] # "idle" ~> pc[s] = "done"
  /\ [](\A s \in SendIds :
         /\ obs[s].attempts <= MAX_RETRIES + 1
         /\ snd[s].retryCount <= MAX_RETRIES
         /\ snd[s].result \in {"none", "true", "false"}
         /\ pc[s] = "done" => snd[s].result \in {"true", "false"})

\* a send has returned after MAX_RETRIES + 1 attempts
C27_Witness ==
  \E s \in SendIds :
    /\ pc[s] = "done" /\ obs[s].attempts = MAX_RETRIES + 1
    /\ snd[s].retryCount = MAX_RETRIES

\* C28: a reconciliation, and a send attempt, asks the mint for proof states
\* at most once, and the one query is about the whole list of proofs the
\* wallet held locally when they were read.
C28_OneBatchedQuery ==
  /\ \A p \in Procs :
       /\ vb[p].queries <= 1
       /\ pc[p] = "vb_set" =>
            /\ vb[p].queries = (IF vb[p].proofs = {} THEN 0 ELSE 1)
            /\ vb[p].queries = 1 =>
                 /\ Range(vb[p].asked) = vb[p].proofs
                 /\ Len(vb[p].asked) = Cardinality(vb[p].proofs)
  /\ \A s \in SendIds :
       /\ snd[s].queries <= 1
       /\ pc[s] \in {"check", "split", "update", "sign", "publish"} =>
            /\ snd[s].queries = 1
            /\ Range(snd[s].asked) = snd[s].proofs
            /\ Len(snd[s].asked) = Cardinality(snd[s].proofs)
       /\ pc[s] = "check" =>
            snd[s].proofs = walletProofs[snd[s].freshWallet]

\* a reconciliation and a send attempt have each asked about two proofs in
\* one query
C28_Witness ==
  \E s \in SendIds :
    /\ pc[s] = "vb_set" /\ vb[s].queries = 1 /\ Len(vb[s].asked) = 2
    /\ snd[s].queries = 1 /\ Len(snd[s].asked) = 2

\* C29: in a reconciliation and in a send attempt, exactly the proofs whose
\* entry at the same position of the mint's reply is UNSPENT are counted
\* into the balance and put into the split; a proof whose entry is SPENT,
\* PENDING, unknown or missing is left out.
C29_ValidIffUnspentAtIndex ==
  /\ \A p \in Procs :
       (pc[p] = "vb_set" /\ vb[p].queries = 1 /\ ~vb[p].failed) =>
         vb[p].bal = SumAmt(amt, {q \in vb[p].proofs :
                        EntryFor(vb[p].proofs, vb[p].proofStates, q) = "UNSPENT"})
  /\ \A s \in SendIds :
       pc[s] = "split" =>
         /\ snd[s].validProofs =
              {q \in snd[s].proofs : ReportedState(s, q) = "UNSPENT"}
         /\ splitInput(s) = snd[s].validProofs

\* a reconciliation closing a send attempt has counted a reply shorter than
\* the list it asked about, and the attempt's split followed such a reply too
C29_Witness ==
  \E s \in SendIds :
    /\ pc[s] = "vb_set" /\ vb[s].queries = 1
    /\ Len(vb[s].proofStates) < Len(vb[s].asked) /\ vb[s].bal > 0
    /\ snd[s].validProofs # {}
    /\ Len(snd[s].proofStates) < Cardinality(snd[s].proofs)

\* the messages logged by the returns of send that precede its try block
GuardLogs == {"Wallet not initialized", "Insufficient balance",
              "Wallet not available after refresh"}

WalletFields(st) == <<st.cashuWallet, st.isWalletReady, st.walletBalance>>

\* in this step initWallet of process p returns null
InitWalletNull(p) ==
  /\ iw[p].result = "none" /\ iw'[p].result = "null"
  /\ pc'[p] \in {"app_ret", "send_fresh"}

\* C31: initWallet creates no wallet on the relays, whatever it finds; when
\* the connection or the signer is missing, when the fetch finds no wallet
\* events (always so when the relays hold none) or fails, or when loading
\* fails, it returns null, and the step in which it does leaves cashuWallet,
\* isWalletReady and walletBalance as they were.
C31_InitWalletNullKeepsWallet ==
  [][\A p \in Procs :
       /\ InitWalletNull(p) =>
            /\ WalletFields(store') = WalletFields(store)
            /\ walletProofs' = walletProofs
       /\ pc[p] \in {"iw_fetch", "iw_start"} /\ pc'[p] # pc[p] =>
            /\ relayHasWallet' = relayHasWallet
            /\ relayProofs' = relayProofs
       /\ pc[p] = "iw_fetch" /\ pc'[p] # pc[p] /\ ~relayHasWallet =>
            InitWalletNull(p)
       /\ pc[p] = "idle" /\ pc'[p] = "app_ret" /\ iw'[p] # iw[p] =>
            (InitWalletNull(p) <=> ~(store.ndkInstance /\ store.signer))]_vars

\* an initWallet of the application has returned null in a session whose
\* wallet is loaded and shows a balance
C31_Witness ==
  /\ pc["app"] = "app_ret" /\ iw["app"].result = "null"
  /\ store.cashuWallet # NoWallet /\ store.isWalletReady
  /\ store.walletBalance > 0

\* C32: when wallet.publish fails, createNewWallet still stores the wallet
\* with isWalletReady true and goes on to return it; and at every return of
\* createNewWallet (by the entry guard, after a failed start, after the
\* closing reconciliation) isCreatingWallet is false.
C32_PublishFailureNonCritical ==
  /\ [](pc["app"] = "cn_ret" =>
         /\ ~store.isCreatingWallet
         /\ iw["app"].result \in {"null", "wallet"}
         /\ iw["app"].publishFailed => iw["app"].result = "wallet")
  /\ [][pc["app"] = "cn_publish" /\ pc'["app"] # "cn_publish" =>
         /\ store'.cashuWallet = iw["app"].wallet
         /\ store'.isWalletReady /\ ~store'.isCreatingWallet
         /\ iw'["app"].result = "wallet"]_vars

\* createNewWallet is returning the wallet it stored although its
\* publication failed: the relays hold no wallet
C32_Witness ==
  /\ pc["app"] = "cn_ret" /\ iw["app"].publishFailed
  /\ iw["app"].result = "wallet" /\ ~relayHasWallet
  /\ store.cashuWallet # NoWallet /\ store.isWalletReady
  /\ ~store.isCreatingWallet

\* the connection fields of the store
ConnFields(st) == <<st.isConnected, st.ndkInstance, st.signer>>

\* C33: connectToNostr uses the key passed to it if there is one, else the
\* stored key if there is one, else the key in the state; when the key so
\* resolved is missing, does not start with "nsec" or does not decode, it
\* returns null, and any return of null leaves isConnected, ndkInstance and
\* signer as they were; init returns true only when it found both keys
\* stored and the connectToNostr it then awaited returned a connection.
C33_KeyResolutionAndNull ==
  /\ [](/\ cx.nsecRef # "" => cx.nsec = cx.nsecRef
        /\ cx.nsecRef = "" /\ cx.storedNsec # "" => cx.nsec = cx.storedNsec
        /\ cx.nsecRef = "" /\ cx.storedNsec = "" => cx.nsec = cx.nostrPrivKey
        /\ cx.initResult = "true" =>
             cx.viaInit /\ cx.connection = "object" /\ cx.storedNsec # "")
  /\ [][/\ cx.connection = "none" /\ cx'.connection = "null" =>
             ConnFields(store') = ConnFields(store)
        /\ (/\ pc["app"] = "cx_connect" /\ pc'["app"] # "cx_connect"
            /\ \/ ~startsWithNsec(cx.nsec)
               \/ decodeKey(cx.nsec) = "null") =>
             cx'.connection = "null"
        /\ (/\ pc["app"] = "idle" /\ cx' # cx
            /\ localStorage.local_npub = "" \/ localStorage.local_nsec = "") =>
             ~cx'.viaInit /\ cx'.initResult # "true"]_vars

\* a connectToNostr called without a key in a connected session has
\* resolved the stored key, an npub, before the session's own nsec, and has
\* returned null, the session still connected
C33_Witness ==
  /\ cx.nsecRef = "" /\ cx.storedNsec = UserNpub
  /\ cx.nostrPrivKey = UserNsec /\ cx.nsec = UserNpub
  /\ cx.connection = "null"
  /\ store.isConnected /\ store.ndkInstance /\ store.signer

\* C34: the logout removes the stored keys and puts the store back into its
\* initial state; from then until auth or generateNostrKeys stores keys
\* again the stored keys stay absent, and an init called in that time
\* returns false at once, starting no connection and changing nothing in
\* the store.
C34_LogoutThenInitFalse ==
  /\ [](hist.loggedOut => localStorage = NoKeys)
  /\ [][/\ (hist'.loggedOut /\ hist'.resetQuiet /\ hist' # hist) =>
             store' = initialState /\ localStorage' = NoKeys
        /\ (hist.loggedOut /\ pc["app"] = "idle" /\ cx' # cx) =>
             /\ ~cx'.viaInit
             /\ pc'["app"] = "idle" =>
                  cx'.initResult = "false" /\ store' = store]_vars

\* after a logout, with no keys stored since, an init has returned false
\* at once and the store is still in its initial state
C34_Witness ==
  /\ hist.loggedOut /\ ~hist.resetQuiet
  /\ cx = [NoCx EXCEPT !.initResult = "false"]
  /\ pc["app"] = "idle"
  /\ store = initialState /\ localStorage = NoKeys

\* C39: whenever isConnected is true, ndkInstance and signer are both set.
C39_ConnectedHasSigner ==
  store.isConnected => store.ndkInstance /\ store.signer

\* a connectToNostr has returned a connection and the session is connected
C39_Witness ==
  /\ cx.connection = "object" /\ pc["app"] = "idle"
  /\ store.isConnected /\ store.ndkInstance /\ store.signer

\* C35: from a resetState on, as long as no init, connectToNostr, initWallet
\* or createNewWallet is started, cashuWallet is null, isWalletReady false
\* and walletBalance 0, whatever was in flight at the reset.
C35_ResetStaysCleared ==
  hist.resetQuiet => WalletFields(store) = <<NoWallet, FALSE, 0>>

\* C40: in every state isWalletReady is true exactly when cashuWallet is
\* set, and walletBalance is non-zero only when cashuWallet is set.
C40_WalletFieldsConsistent ==
  /\ store.isWalletReady <=> store.cashuWallet # NoWallet
  /\ store.walletBalance # 0 => store.cashuWallet # NoWallet

\* C37: when a reconciliation completes after every reconciliation started
\* later than it has completed, it leaves the displayed balance as the
\* newer ones left it.
C37_LastStartedWins ==
  [][\A p \in Procs :
       (/\ pc[p] = "vb_set" /\ pc'[p] # "vb_set"
        /\ vb[p].newer /\ Reconciling = {p}) =>
         store'.walletBalance = store.walletBalance]_vars

\* C36: the reconciliation that follows the storing of a settled deposit's
\* proofs reads a proof set that contains them: they were inserted into the
\* instance the store holds at that time.
C36_DepositIntoCurrentWallet ==
  (pc["dep"] \in {"vb_query", "vb_set"} /\ vb["dep"].wallet # NoWallet) =>
    /\ dep.token \subseteq vb["dep"].proofs
    /\ dep.token \subseteq walletProofs[vb["dep"].wallet]

\* C38: while a deposit is awaiting payment the stored invoice is its own,
\* whatever another deposit does meanwhile.
C38_InvoiceOfAwaitingDeposit ==
  /\ pc["dep"] = "d_awaiting" => store.invoice = dep.amount
  /\ pc["dep2"] = "d2_awaiting" => store.invoice = DirectInvoice
====
